---- MODULE Spec2Model ----
(***************************************************************************)
(* A model of the ReiserFS rescue tools (reiserfs_blocks.py and            *)
(* parse_ddrescue.py): the RangeList run-length encoder, the on-disk key   *)
(* codec, the partial B-tree reader and the traversal drivers.             *)
(***************************************************************************)
EXTENDS Integers, Sequences, FiniteSets, TLC

VARIABLES
  items,      \* RangeList.items: a sequence of [start, size] records
  added,      \* history: every position handed to RangeList.add so far
  preorder,   \* history: every add call so far satisfied start >= last end
  rl_failed,  \* the assertion of RangeList.add has failed (AssertionError)
  k_in,       \* the Key handed to Key.pack
  k_bytes,    \* the 16 packed bytes, as [dirid, objid, word]
  k_out,      \* the result of Key.unpack
  k_pc,       \* position in the pack / unpack round trip
  disk,       \* the image: block number -> decoded node
  bad,        \* the rescue map: the sectors whose status is not FINISHED
  root_block, \* superblock.root_block, as stored in the image
  sectors,    \* ReiserFs.sectors: [isSet, list, set] (a list or a SetList)
  cache,      \* the blocks memoized by the lru_cache of readNode
  reads,      \* history: the blocks handed to readBlock after the mount
  incomplete, \* ReiserFs.incomplete
  lk_key,     \* the key looked up
  fi_result,  \* what find_item(key) returned
  scan_result,\* what list(iter_items_in_range(key, key')) returned
  partition_start, \* ReiserFs.partition_start (and rescue_map.offset)
  cmd,        \* the command main() dispatches to, with its arguments
  pc,         \* the position of the command
  out,        \* the lines printed to stdout, as [pos, size, ch]
  errout,     \* the messages printed to stderr
  crashed,    \* the exception that ended the command, or "none"
  heap,       \* _findTree: the heap of (block, level) of the current pass
  next_pass,  \* _findTree: the list of (block, level) of the next pass
  counts,     \* _findTree: [found, incomplete, partial]
  pass,       \* history: the number of passes _findTree has begun
  calls,      \* history: the [pass, block] of each readNode call of _findTree
  map_size,   \* RescueMap.size(): last.start + last.size
  keysRemaining, \* findFolder: the stack of keys still to visit
  excludeIds, \* findFolder: the objids of the excluded paths
  blockSet,   \* findFolder: blocks, the set of data blocks harvested
  written,    \* cat: the number of bytes written to stdout (currentSize)
  yielded,    \* history: the logical length regular_block_list yielded
  rm_ranges,  \* RescueMap._ranges: a sequence of [start, size, status]
  rm_position,\* the position handed to RescueMap.__getitem__
  rm_result,  \* what RescueMap.__getitem__ returned or raised
  compared,   \* history: the pairs of keys compared by <, <=, > or >=
  rn_block,   \* the block handed to readNode
  rn_result,  \* what readNode(rn_block) returned
  bitmap,     \* the image: bitmap block number -> the set of its bits set
  block_count,\* superblock.block_count
  full_name   \* get_full_name: its key, parent and parts, and what it returned

rangeVars  == <<items, added, preorder, rl_failed>>
keyVars    == <<k_in, k_bytes, k_out, k_pc>>
diskVars   == <<disk, bad, root_block>>
fsVars     == <<sectors, cache, reads, incomplete>>
lookupVars == <<lk_key, fi_result, scan_result>>
cmdVars    == <<partition_start, map_size, cmd, pc, out, errout, crashed>>
treeVars   == <<heap, next_pass, counts, pass, calls>>
folderVars == <<keysRemaining, excludeIds, blockSet>>
catVars    == <<written, yielded>>
mapVars    == <<rm_ranges, rm_position, rm_result>>
nodeVars   == <<rn_block, rn_result>>
bitmapVars == <<bitmap, block_count>>
restVars   == <<mapVars, compared, nodeVars, bitmapVars, full_name>>
vars       == <<rangeVars, keyVars, diskVars, fsVars, lookupVars, cmdVars,
                treeVars, folderVars, catVars, restVars>>

\* What the steps of one part of the program leave alone.
notRange   == <<keyVars, diskVars, fsVars, lookupVars, cmdVars, treeVars,
                folderVars, catVars, restVars>>
notKey     == <<rangeVars, diskVars, fsVars, lookupVars, cmdVars, treeVars,
                folderVars, catVars, restVars>>
notLookup  == <<rangeVars, keyVars, diskVars, cmdVars, treeVars, folderVars,
                catVars, restVars>>
notCmd     == <<rangeVars, keyVars, diskVars, lookupVars, restVars>>

(***************************************************************************)
(* Bounds of the model.                                                    *)
(***************************************************************************)
MaxStart == 6
MaxSize  == 2
MaxId    == 2
MaxLeaves == 3
MaxLevel == 3
MaxDamaged == 2

(***************************************************************************)
(* RangeList (reiserfs_blocks.py 52-68).                                   *)
(***************************************************************************)
Range(start, size) == [start |-> start, size |-> size]

Last(s) == s[Len(s)]

RangeEnd(r) == r.start + r.size

\* RangeList.add: [ok, items]; ok is FALSE when the assertion fails.
AddNoMerge(its, start, size) ==
  IF Len(its) # 0 /\ ~(RangeEnd(Last(its)) <= start)
    THEN [ok |-> FALSE, items |-> its]
    ELSE [ok |-> TRUE, items |-> Append(its, Range(start, size))]

RangeListAdd(its, start, size) ==
  IF Len(its) # 0 /\ RangeEnd(Last(its)) = start
    THEN [ok |-> TRUE, items |-> [its EXCEPT ![Len(its)].size = @ + size]]
  ELSE IF Len(its) # 0 /\ ~(RangeEnd(Last(its)) < start)
    THEN [ok |-> FALSE, items |-> its]
    ELSE [ok |-> TRUE, items |-> Append(its, Range(start, size))]

RangeIdle ==
  /\ items = <<>>
  /\ added = {}
  /\ preorder = TRUE
  /\ rl_failed = FALSE

(***************************************************************************)
(* Keys (reiserfs_blocks.py 216-274).  The 64-bit offset+type word of      *)
(* struct "<IIQ" is kept as four 16-bit limbs, most significant first, so  *)
(* that no value leaves the range of the checker's integers.               *)
(***************************************************************************)
LimbBase == 65536

STAT      == 0
INDIRECT  == 1
DIRECT    == 2
DIRECTORY == 3
ANY       == 15

ItemType == {STAT, INDIRECT, DIRECT, DIRECTORY, ANY}

\* ItemType.version1_type2id, as the two upper limbs of the word.
version1_type2id(t) ==
  CASE t = STAT      -> <<0, 0>>
    [] t = INDIRECT  -> <<65535, 65534>>
    [] t = DIRECT    -> <<65535, 65535>>
    [] t = DIRECTORY -> <<0, 500>>
    [] t = ANY       -> <<0, 555>>

\* ItemType.version1_id2type; -1 stands for the KeyError of a missing id.
version1_id2type(hi) ==
  CASE hi = <<0, 0>>         -> STAT
    [] hi = <<65535, 65534>> -> INDIRECT
    [] hi = <<65535, 65535>> -> DIRECT
    [] hi = <<0, 500>>       -> DIRECTORY
    [] hi = <<0, 555>>       -> ANY
    [] OTHER                 -> -1

Key(dirid, objid, offset, type, version) ==
  [dirid |-> dirid, objid |-> objid, offset |-> offset, type |-> type,
   version |-> version]

\* An offset below 2^16 as limbs.
Off(n) == <<0, 0, 0, n>>

\* The integer value of an offset whose upper limbs are zero.
OffInt(o) == o[4]

\* Key.pack.  For a valid key the or of offset and shifted type is a sum.
KeyPack(k) ==
  IF k.version = 1
    THEN [dirid |-> k.dirid, objid |-> k.objid,
          word |-> <<version1_type2id(k.type)[1], version1_type2id(k.type)[2],
                     k.offset[3], k.offset[4]>>]
    ELSE [dirid |-> k.dirid, objid |-> k.objid,
          word |-> <<k.offset[1] + k.type * 4096, k.offset[2],
                     k.offset[3], k.offset[4]>>]

\* The version Key.unpack assumes when the caller gives none: the low four
\* bits of the combined word.
InferVersion(w) ==
  IF w[4] % 16 = 0 \/ w[4] % 16 = 15 THEN 1 ELSE 2

\* Key.unpack with the version given: [ok, key]; ok is FALSE for the
\* KeyError (version 1) or ValueError (version 2) of an unknown type.
KeyUnpackAs(b, version) ==
  IF version = 1
    THEN LET t == version1_id2type(<<b.word[1], b.word[2]>>) IN
         [ok |-> t # -1,
          key |-> Key(b.dirid, b.objid, <<0, 0, b.word[3], b.word[4]>>, t, 1)]
    ELSE LET t == b.word[1] \div 4096 IN
         [ok |-> t \in ItemType,
          key |-> Key(b.dirid, b.objid,
                      <<b.word[1] % 4096, b.word[2], b.word[3], b.word[4]>>,
                      t, 2)]

\* Key.unpack(b) with version=None.
KeyUnpack(b) == KeyUnpackAs(b, InferVersion(b.word))

LimbSamples == {0, 1, 15, 16, 4095}

\* The valid keys the round trip is tried on: offset < 2^32 for version 1,
\* offset < 2^60 for version 2.
ValidKeys ==
  { Key(d, o, <<0, 0, l1, l0>>, t, 1) :
      d \in 1..MaxId, o \in 1..MaxId, l1 \in LimbSamples, l0 \in LimbSamples,
      t \in ItemType }
  \cup
  { Key(d, o, <<l3, 0, l1, l0>>, t, 2) :
      d \in 1..MaxId, o \in 1..MaxId, l3 \in LimbSamples, l1 \in {0, 1},
      l0 \in LimbSamples, t \in ItemType }

NoKey == Key(0, 0, Off(0), STAT, 0)
NoBytes == [dirid |-> 0, objid |-> 0, word |-> Off(0)]

KeyIdle ==
  /\ k_in = NoKey
  /\ k_bytes = NoBytes
  /\ k_out = [ok |-> FALSE, key |-> NoKey]
  /\ k_pc = "idle"

(***************************************************************************)
(* Key order: Key is a namedtuple, so keys compare as the tuples           *)
(* (dirid, objid, offset, type, version).                                  *)
(***************************************************************************)
RECURSIVE SeqLt(_, _)
SeqLt(a, b) ==
  IF Len(a) = 0 \/ Len(b) = 0 THEN Len(a) < Len(b)
  ELSE IF Head(a) # Head(b) THEN Head(a) < Head(b)
  ELSE SeqLt(Tail(a), Tail(b))

KeyTuple(k) == <<k.dirid, k.objid>> \o k.offset \o <<k.type, k.version>>

KeyLt(a, b) == SeqLt(KeyTuple(a), KeyTuple(b))
KeyLe(a, b) == a = b \/ KeyLt(a, b)
KeyGt(a, b) == KeyLt(b, a)
KeyGe(a, b) == KeyLe(b, a)

(***************************************************************************)
(* Nodes and items (reiserfs_blocks.py 101-213, 277-372).  A decoded node  *)
(* is [level, item_count, free_space, keys, ptrs, items]: keys and ptrs    *)
(* are what an internal node's payload holds, items what a leaf's holds.   *)
(* A stored item is [kbytes, version, count, body]; a body is              *)
(* [len, filetype, size, entries, blocks], read as the item's type asks.   *)
(***************************************************************************)
BlockSize       == 4096
SectorSize      == 512
SectorsPerBlock == BlockSize \div SectorSize
ItemHdrSize     == 24
SuperSector     == 65536 \div SectorSize

NoNode == [level |-> 0, item_count |-> 0, free_space |-> 0,
           keys |-> <<>>, ptrs |-> <<>>, items |-> <<>>]

NoBody == [len |-> 0, filetype |-> "NONE", size |-> 0,
           entries |-> <<>>, blocks |-> <<>>]

NoItem == [key |-> NoKey, count |-> 0, version |-> 0, body |-> NoBody]

\* The ascending sequence of a finite set of integers.
RECURSIVE SortedSeq(_)
SortedSeq(S) ==
  IF S = {} THEN <<>>
  ELSE LET m == CHOOSE x \in S : \A y \in S : x <= y
       IN <<m>> \o SortedSeq(S \ {m})

\* math.ceil(x / 512)
CeilSectors(x) == -((-x) \div SectorSize)

\* ItemHdr.unpack: the key is unpacked with version = hdr.version + 1.
ItemOf(it) ==
  LET u == KeyUnpackAs(it.kbytes, it.version + 1) IN
  [ok |-> u.ok,
   item |-> [key |-> u.key, count |-> it.count, version |-> it.version,
             body |-> it.body]]

\* The index of the first embedded key that stops the walk of ptr_find:
\* one that cannot be unpacked or that is greater than key; item_count + 1
\* when there is none.
FirstGreater(node, key, from) ==
  LET stops == { j \in from..node.item_count :
                   \/ ~KeyUnpack(node.keys[j]).ok
                   \/ KeyGt(KeyUnpack(node.keys[j]).key, key) }
  IN IF stops = {} THEN node.item_count + 1
     ELSE CHOOSE j \in stops : \A x \in stops : j <= x

FirstGreaterEq(node, key, from) ==
  LET stops == { j \in from..node.item_count :
                   \/ ~KeyUnpack(node.keys[j]).ok
                   \/ KeyGe(KeyUnpack(node.keys[j]).key, key) }
  IN IF stops = {} THEN node.item_count + 1
     ELSE CHOOSE j \in stops : \A x \in stops : j <= x

Unpackable(node, j) == j > node.item_count \/ KeyUnpack(node.keys[j]).ok

\* Node.ptr_find on an internal node: [ok, block]; ok is FALSE when the
\* assertion on key.type fails, an embedded key cannot be unpacked, or the
\* node holds no key at all (i is then unbound).
PtrFind(node, key) ==
  LET i == FirstGreater(node, key, 1) IN
  IF key.type # STAT \/ node.item_count = 0 \/ ~Unpackable(node, i)
    THEN [ok |-> FALSE, block |-> 0]
    ELSE [ok |-> TRUE, block |-> node.ptrs[i]]

\* Node.ptr_find_range on an internal node: [ok, blocks].
PtrFindRange(node, keyStart, keyEnd) ==
  LET start == FirstGreater(node, keyStart, 1)
      end   == FirstGreaterEq(node, keyEnd, start)
  IN IF node.item_count = 0 \/ ~Unpackable(node, start) \/ ~Unpackable(node, end)
       THEN [ok |-> FALSE, blocks |-> <<>>]
       ELSE [ok |-> TRUE, blocks |-> SubSeq(node.ptrs, start, end)]

\* Node.item_find: the first item whose 16 key bytes are those of key.pack().
ItemFind(node, key) ==
  LET hits == { i \in 1..node.item_count : node.items[i].kbytes = KeyPack(key) } IN
  IF hits = {} THEN [ok |-> TRUE, found |-> FALSE, item |-> NoItem]
  ELSE LET i == CHOOSE h \in hits : \A x \in hits : h <= x
           u == ItemOf(node.items[i])
       IN [ok |-> u.ok, found |-> u.ok, item |-> IF u.ok THEN u.item ELSE NoItem]

\* Node.item_find_range: every header is unpacked; the items whose key k
\* satisfies keyStart <= k < keyEnd, in storage order.
RECURSIVE SelectItems(_, _, _, _)
SelectItems(node, i, keyStart, keyEnd) ==
  IF i > node.item_count THEN <<>>
  ELSE LET it == ItemOf(node.items[i]).item IN
       (IF KeyLe(keyStart, it.key) /\ KeyLt(it.key, keyEnd) THEN <<it>> ELSE <<>>)
         \o SelectItems(node, i + 1, keyStart, keyEnd)

\* item_find_range with the lower bound taken as exclusive.
RECURSIVE SelectItemsOpen(_, _, _, _)
SelectItemsOpen(node, i, keyStart, keyEnd) ==
  IF i > node.item_count THEN <<>>
  ELSE LET it == ItemOf(node.items[i]).item IN
       (IF KeyLt(keyStart, it.key) /\ KeyLt(it.key, keyEnd) THEN <<it>> ELSE <<>>)
         \o SelectItemsOpen(node, i + 1, keyStart, keyEnd)

ItemFindRangeOpen(node, keyStart, keyEnd) ==
  [ok |-> \A i \in 1..node.item_count : ItemOf(node.items[i]).ok,
   items |-> SelectItemsOpen(node, 1, keyStart, keyEnd)]

ItemFindRange(node, keyStart, keyEnd) ==
  [ok |-> \A i \in 1..node.item_count : ItemOf(node.items[i]).ok,
   items |-> SelectItems(node, 1, keyStart, keyEnd)]

(***************************************************************************)
(* The reader (reiserfs_blocks.py 382-590).  An operator that models a     *)
(* method takes the reader's mutable fields as F = [sectors, cache, reads, *)
(* incomplete] and gives the changed fields back with its result.          *)
(***************************************************************************)
NodeAt(b) == IF b \in DOMAIN disk THEN disk[b] ELSE NoNode

IsFinished(sector) == sector \notin bad

ListSectors == [isSet |-> FALSE, list |-> <<>>, set |-> {}]
SetListSectors == [isSet |-> TRUE, list |-> <<>>, set |-> {}]

\* self.sectors.append(x), for a list and for a SetList
SectorsAppend(sec, x) ==
  IF sec.isSet THEN [sec EXCEPT !.set = @ \cup {x}]
  ELSE [sec EXCEPT !.list = Append(@, x)]

RECURSIVE SectorsExtend(_, _)
SectorsExtend(sec, xs) ==
  IF Len(xs) = 0 THEN sec ELSE SectorsExtend(SectorsAppend(sec, Head(xs)), Tail(xs))

\* range(1, math.ceil(node_size_left / 512)) only.
OccupiedOffsLeft(node) ==
  LET left == IF node.level = 1
                THEN 24 + node.item_count * ItemHdrSize
                ELSE BlockSize - node.free_space
  IN (1 .. CeilSectors(left) - 1) \ {0}

\* The sector offsets readNode visits after the first: those of the left
\* part and of the right part of the node, without offset 0.
OccupiedOffs(node) ==
  LET left  == IF node.level = 1
                 THEN 24 + node.item_count * ItemHdrSize
                 ELSE BlockSize - node.free_space
      right == IF node.level = 1
                 THEN BlockSize - left - node.free_space
                 ELSE 0
  IN ((1 .. CeilSectors(left) - 1)
        \cup ((SectorsPerBlock - CeilSectors(right)) .. (SectorsPerBlock - 1)))
       \ {0}

\* What readNode(block) returns: (complete, node); none stands for node
\* being None.
NodeResult(block) ==
  IF ~IsFinished(block * SectorsPerBlock)
    THEN [complete |-> FALSE, none |-> TRUE, node |-> NoNode]
    ELSE [complete |-> \A off \in OccupiedOffs(NodeAt(block)) :
                         IsFinished(block * SectorsPerBlock + off),
          none |-> FALSE, node |-> NodeAt(block)]

\* A reader that looks the first sector up in the rescue map before it
\* records it.
ReadNodeChecked(F, block) ==
  IF block \in F.cache THEN [F |-> F] @@ NodeResult(block)
  ELSE LET first == block * SectorsPerBlock
           F1 == [F EXCEPT !.cache = @ \cup {block}]
       IN IF ~IsFinished(first) THEN [F |-> F1] @@ NodeResult(block)
          ELSE [F |-> [F1 EXCEPT
                         !.reads = @ \cup {block},
                         !.sectors = SectorsExtend(SectorsAppend(@, first),
                            [i \in 1..Cardinality(OccupiedOffs(NodeAt(block))) |->
                               first + SortedSeq(OccupiedOffs(NodeAt(block)))[i]])]]
               @@ NodeResult(block)

\* readNode(block) with partial_only = False, as every caller passes it.  A
\* memoized block gives its result with no effect on the reader; the model's
\* images hold fewer nodes than the cache's 128 entries, so none is evicted.
ReadNode(F, block) ==
  IF block \in F.cache THEN [F |-> F] @@ NodeResult(block)
  ELSE LET first == block * SectorsPerBlock
           F1 == [F EXCEPT !.sectors = SectorsAppend(@, first),
                           !.cache = @ \cup {block}]
       IN IF ~IsFinished(first) THEN [F |-> F1] @@ NodeResult(block)
          ELSE [F |-> [F1 EXCEPT
                         !.reads = @ \cup {block},
                         !.sectors = SectorsExtend(@,
                            [i \in 1..Cardinality(OccupiedOffs(NodeAt(block))) |->
                               first + SortedSeq(OccupiedOffs(NodeAt(block)))[i]])]]
               @@ NodeResult(block)

\* ReiserFs.find_item from treeBlock on: [F, ok, found, item]; ok is FALSE
\* when an exception ends the lookup.
RECURSIVE FindItemAt(_, _, _)
FindItemAt(F, treeBlock, key) ==
  LET Descend(r) ==
        IF ~r.complete THEN [F |-> r.F, ok |-> TRUE, found |-> FALSE, item |-> NoItem]
        ELSE IF r.node.level = 1 THEN [F |-> r.F] @@ ItemFind(r.node, key)
        ELSE LET Follow(p) ==
                   IF ~p.ok
                     THEN [F |-> r.F, ok |-> FALSE, found |-> FALSE, item |-> NoItem]
                     ELSE FindItemAt(r.F, p.block, key)
             IN Follow(PtrFind(r.node, key))
  IN Descend(ReadNode(F, treeBlock))

FindItem(F, key) == FindItemAt(F, root_block, key)

\* ReiserFs.iter_items_in_range: [F, ok, steps].  The generator yields leaf
\* by leaf: steps holds, for every leaf it reads, the items it yields there
\* and the reader's fields at that moment, so that a consumer that stops
\* early is left with the fields of the step it stopped in.
RECURSIVE IterItemsAt(_, _, _, _)
RECURSIVE IterChildren(_, _, _, _)
IterItemsAt(F, keyStart, keyEnd, treeBlock) ==
  LET Visit(r) ==
        IF ~r.complete THEN [F |-> r.F, ok |-> TRUE, steps |-> <<>>]
        ELSE IF r.node.level = 1
          THEN LET Yield(f) ==
                     [F |-> r.F, ok |-> f.ok,
                      steps |-> IF f.ok THEN <<[F |-> r.F, items |-> f.items]>> ELSE <<>>]
               IN Yield(ItemFindRange(r.node, keyStart, keyEnd))
        ELSE LET Children(p) ==
                   IF ~p.ok THEN [F |-> r.F, ok |-> FALSE, steps |-> <<>>]
                   ELSE IterChildren(r.F, keyStart, keyEnd, p.blocks)
             IN Children(PtrFindRange(r.node, keyStart, keyEnd))
  IN Visit(ReadNode(F, treeBlock))

IterChildren(F, keyStart, keyEnd, blocks) ==
  IF Len(blocks) = 0 THEN [F |-> F, ok |-> TRUE, steps |-> <<>>]
  ELSE LET Then(c) ==
             IF ~c.ok THEN c
             ELSE LET Join(rest) ==
                        [F |-> rest.F, ok |-> rest.ok, steps |-> c.steps \o rest.steps]
                  IN Join(IterChildren(c.F, keyStart, keyEnd, Tail(blocks)))
       IN Then(IterItemsAt(F, keyStart, keyEnd, Head(blocks)))

IterItemsInRange(F, keyStart, keyEnd) ==
  IterItemsAt(F, keyStart, keyEnd, root_block)

\* The items of all steps, in order: what a consumer that runs the
\* generator to its end has seen.
RECURSIVE AllItems(_)
AllItems(steps) ==
  IF Len(steps) = 0 THEN <<>> ELSE Head(steps).items \o AllItems(Tail(steps))

FsRec == [sectors |-> sectors, cache |-> cache, reads |-> reads,
          incomplete |-> incomplete]

FsIdle ==
  /\ sectors = ListSectors
  /\ cache = {}
  /\ reads = {}
  /\ incomplete = FALSE

DiskIdle ==
  /\ disk = <<>>
  /\ bad = {}
  /\ root_block = 0

NoCmd == [name |-> "none"]

CmdIdle ==
  /\ partition_start = 0
  /\ map_size = 0
  /\ cmd = NoCmd
  /\ pc = "idle"
  /\ out = <<>>
  /\ errout = <<>>
  /\ crashed = "none"

CmdStart ==
  /\ pc = "start"
  /\ out = <<>>
  /\ errout = <<>>
  /\ crashed = "none"

TreeIdle ==
  /\ heap = <<>>
  /\ next_pass = <<>>
  /\ counts = [found |-> 0, incomplete |-> 0, partial |-> 0]
  /\ pass = 0
  /\ calls = <<>>

FolderIdle ==
  /\ keysRemaining = <<>>
  /\ excludeIds = {}
  /\ blockSet = {}

CatIdle ==
  /\ written = 0
  /\ yielded = 0

NoLookup == [done |-> FALSE, err |-> "none", status |-> "none"]

MapIdle ==
  /\ rm_ranges = <<>>
  /\ rm_position = 0
  /\ rm_result = NoLookup

\* The parts of the program that one specification only exercises.
NodeIdle ==
  /\ rn_block = 0
  /\ rn_result = [done |-> FALSE]

BitmapIdle ==
  /\ bitmap = <<>>
  /\ block_count = 0

RestIdle ==
  /\ MapIdle /\ NodeIdle /\ BitmapIdle
  /\ compared = {}
  /\ full_name = <<>>

LookupIdle ==
  /\ lk_key = NoKey
  /\ fi_result = [done |-> FALSE, ok |-> TRUE, items |-> <<>>]
  /\ scan_result = [done |-> FALSE, ok |-> TRUE, items |-> <<>>]

(***************************************************************************)
(* SpecRange: any sequence of RangeList.add calls.                         *)
(***************************************************************************)
Add(start, size) ==
  /\ ~rl_failed
  /\ LET r == RangeListAdd(items, start, size) IN
       /\ rl_failed' = ~r.ok
       /\ items' = r.items
  /\ added' = added \cup (start .. start + size - 1)
  /\ preorder' = (preorder /\ (Len(items) = 0 \/ start >= RangeEnd(Last(items))))
  /\ UNCHANGED notRange

InitRange ==
  /\ RangeIdle /\ KeyIdle /\ DiskIdle /\ FsIdle /\ LookupIdle
  /\ CmdIdle /\ TreeIdle /\ FolderIdle /\ CatIdle /\ RestIdle

NextRange == \E start \in 0..MaxStart, size \in 1..MaxSize : Add(start, size)

SpecRange == InitRange /\ [][NextRange]_vars

(***************************************************************************)
(* SpecKey: one key packed and unpacked again.                             *)
(***************************************************************************)
InitKey ==
  /\ RangeIdle
  /\ k_in \in ValidKeys
  /\ k_bytes = NoBytes
  /\ k_out = [ok |-> FALSE, key |-> NoKey]
  /\ k_pc = "start"
  /\ DiskIdle /\ FsIdle /\ LookupIdle
  /\ CmdIdle /\ TreeIdle /\ FolderIdle /\ CatIdle /\ RestIdle

Pack ==
  /\ k_pc = "start"
  /\ k_bytes' = KeyPack(k_in)
  /\ k_pc' = "packed"
  /\ UNCHANGED <<k_in, k_out, notKey>>

\* Key.unpack(b): version inferred.
Unpack ==
  /\ k_pc = "packed"
  /\ k_out' = KeyUnpack(k_bytes)
  /\ k_pc' = "unpacked"
  /\ UNCHANGED <<k_in, k_bytes, notKey>>

\* Key.unpack(b, version): the caller names the version, as ItemHdr.unpack
\* does.
UnpackForced ==
  /\ k_pc = "packed"
  /\ k_out' = KeyUnpackAs(k_bytes, k_in.version)
  /\ k_pc' = "forced"
  /\ UNCHANGED <<k_in, k_bytes, notKey>>

NextKey == Pack \/ Unpack \/ UnpackForced

SpecKey == InitKey /\ [][NextKey]_vars

(***************************************************************************)
(* Images.  Stored items and nodes as mkreiserfs and the kernel lay them   *)
(* out: a stat item has offset 0 and type STAT, a directory item is a      *)
(* version-1 item at offset 1, header version 0 is key version 1.          *)
(***************************************************************************)
StatBody(filetype, size) == [NoBody EXCEPT !.len = 44, !.filetype = filetype, !.size = size]

StatItem(d, o, hver, filetype, size) ==
  [kbytes |-> KeyPack(Key(d, o, Off(0), STAT, hver + 1)), version |-> hver,
   count |-> 65535, body |-> StatBody(filetype, size)]

\* A directory entry is [name, dirid, objid]; len is the body's byte length.
DirItem(d, o, entries, len) ==
  [kbytes |-> KeyPack(Key(d, o, Off(1), DIRECTORY, 1)), version |-> 0,
   count |-> Len(entries), body |-> [NoBody EXCEPT !.len = len, !.entries = entries]]

IndirectItem(d, o, off, hver, blocks) ==
  [kbytes |-> KeyPack(Key(d, o, Off(off), INDIRECT, hver + 1)), version |-> hver,
   count |-> 0, body |-> [NoBody EXCEPT !.len = 4 * Len(blocks), !.blocks = blocks]]

DirectItem(d, o, off, hver, len) ==
  [kbytes |-> KeyPack(Key(d, o, Off(off), DIRECT, hver + 1)), version |-> hver,
   count |-> 65535, body |-> [NoBody EXCEPT !.len = len]]

Leaf(its, free_space) ==
  [level |-> 1, item_count |-> Len(its), free_space |-> free_space,
   keys |-> <<>>, ptrs |-> <<>>, items |-> its]

Internal(level, keys, ptrs, free_space) ==
  [level |-> level, item_count |-> Len(keys), free_space |-> free_space,
   keys |-> keys, ptrs |-> ptrs, items |-> <<>>]

\* The free_space of an internal node that holds n keys and n + 1 pointers.
InternalFree(n) == BlockSize - 24 - 16 * n - 8 * (n + 1)

\* A key-sorted tree over the item list its: one leaf at block 18 when cuts
\* is empty, else a level-2 root at block 18 over the leaves 19, 20, ...;
\* leaf i+1 starts with item cuts[i] + 1, whose key is the root's i-th key.
SplitTree(its, cuts, leafFree) ==
  IF Len(cuts) = 0 THEN (18 :> Leaf(its, leafFree))
  ELSE LET n == Len(cuts)
           lo(i) == IF i = 1 THEN 1 ELSE cuts[i - 1] + 1
           hi(i) == IF i = n + 1 THEN Len(its) ELSE cuts[i]
       IN [b \in 18..(19 + n) |->
             IF b = 18
               THEN Internal(2, [i \in 1..n |-> its[cuts[i] + 1].kbytes],
                             [i \in 1..(n + 1) |-> 18 + i], InternalFree(n))
               ELSE Leaf(SubSeq(its, lo(b - 18), hi(b - 18)), leafFree)]

\* The ways to cut n items into at most MaxLeaves non-empty leaves.
Cuts(n) ==
  { SortedSeq(c) : c \in { c \in SUBSET (1..(n - 1)) : Cardinality(c) < MaxLeaves } }

(***************************************************************************)
(* SpecLookup: find_item(k) and list(iter_items_in_range(k, k')) on a      *)
(* key-sorted tree of readable nodes.                                      *)
(***************************************************************************)
\* The items the lookups run over; hv gives the header version of the three
\* stat items, withMid whether object (2, 3) is stored at all.
LookupItems(hv, withMid) ==
  <<StatItem(1, 2, hv[1], "DIRECTORY", 48),
    DirItem(1, 2, <<>>, 48)>>
  \o (IF withMid
        THEN <<StatItem(2, 3, hv[2], "REGULAR", 4096),
               IndirectItem(2, 3, 1, 1, <<50>>)>>
        ELSE <<>>)
  \o <<StatItem(2, 4, hv[3], "REGULAR", 0)>>

\* The least key greater than k in the order of Key tuples.
KeySucc(k) == [k EXCEPT !.version = @ + 1]

InitLookup ==
  /\ RangeIdle /\ KeyIdle /\ FsIdle
  /\ CmdIdle /\ TreeIdle /\ FolderIdle /\ CatIdle /\ RestIdle
  /\ \E hv \in [1..3 -> {0, 1}], withMid \in BOOLEAN :
       \E cuts \in Cuts(Len(LookupItems(hv, withMid))) :
         disk = SplitTree(LookupItems(hv, withMid), cuts, 3000)
  /\ bad = {}
  /\ root_block = 18
  /\ lk_key \in { Key(do[1], do[2], Off(off), STAT, v) :
                    do \in {<<1, 2>>, <<2, 3>>, <<2, 4>>, <<2, 5>>},
                    off \in {0, 1}, v \in {1, 2} }
  /\ fi_result = [done |-> FALSE, ok |-> TRUE, items |-> <<>>]
  /\ scan_result = [done |-> FALSE, ok |-> TRUE, items |-> <<>>]

SetFs(F) ==
  /\ sectors' = F.sectors
  /\ cache' = F.cache
  /\ reads' = F.reads
  /\ incomplete' = F.incomplete

\* item = fs.find_item(key)
LookupFind ==
  /\ ~fi_result.done
  /\ LET r == FindItem(FsRec, lk_key) IN
       /\ fi_result' = [done |-> TRUE, ok |-> r.ok,
                        items |-> IF r.found THEN <<r.item>> ELSE <<>>]
       /\ SetFs(r.F)
  /\ UNCHANGED <<lk_key, scan_result, notLookup>>

\* list(fs.iter_items_in_range(key, key'))
LookupScan ==
  /\ ~scan_result.done
  /\ LET r == IterItemsInRange(FsRec, lk_key, KeySucc(lk_key)) IN
       /\ scan_result' = [done |-> TRUE, ok |-> r.ok, items |-> AllItems(r.steps)]
       /\ SetFs(r.F)
  /\ UNCHANGED <<lk_key, fi_result, notLookup>>

NextLookup == LookupFind \/ LookupScan

SpecLookup == InitLookup /\ [][NextLookup]_vars

(***************************************************************************)
(* Output (reiserfs_blocks.py 948-957) and the mount (405-414).            *)
(***************************************************************************)
Line(pos, size, ch) == [pos |-> pos, size |-> size, ch |-> ch]

\* print(0, "*", 1)
HeaderLine == Line(0, 1, "*")

\* print_rangelist without the lines of the gaps.
RECURSIVE PrintItemsNoGap(_, _, _, _)
PrintItemsNoGap(its, end, mult, ps) ==
  IF Len(its) = 0 THEN <<>>
  ELSE LET item == Head(its) IN
       <<Line(ps + item.start * mult, item.size * mult, "+")>>
       \o PrintItemsNoGap(Tail(its), item.start + item.size, mult, ps)

RECURSIVE PrintItems(_, _, _, _)
PrintItems(its, end, mult, ps) ==
  IF Len(its) = 0 THEN <<>>
  ELSE LET item == Head(its) IN
       (IF end # item.start
          THEN <<Line(ps + end * mult, (item.start - end) * mult, "-")>>
          ELSE <<>>)
       \o <<Line(ps + item.start * mult, item.size * mult, "+")>>
       \o PrintItems(Tail(its), item.start + item.size, mult, ps)

\* print_rangelist(fs, rangelist, mult): the lines printed.
PrintRangelist(its, mult, ps) ==
  <<HeaderLine, Line(0, ps, "-")>> \o PrintItems(its, 0, mult, ps)

\* RangeList.add for each (start, size) of rs in turn: [ok, items].
RECURSIVE AddAll(_, _)
AddAll(acc, rs) ==
  IF Len(rs) = 0 \/ ~acc.ok THEN acc
  ELSE AddAll(RangeListAdd(acc.items, Head(rs).start, Head(rs).size), Tail(rs))

EmptyRangeList == [ok |-> TRUE, items |-> <<>>]

\* list.sort() of a list of integers: the element of index i goes to the
\* place given by the number of elements that sort before it.
SortInts(s) ==
  LET n == Len(s)
      place == [i \in 1..n |->
                  1 + Cardinality({ j \in 1..n : s[j] < s[i] \/ (s[j] = s[i] /\ j < i) })]
  IN [r \in 1..n |-> s[CHOOSE i \in 1..n : place[i] = r]]

\* ReiserFs.init(): [F, ok].  The superblock's sector is recorded, then
\* looked up in the rescue map.
Mount(F) ==
  [F |-> [F EXCEPT !.sectors = SectorsAppend(@, SuperSector)],
   ok |-> IsFinished(SuperSector)]

(***************************************************************************)
(* tree (reiserfs_blocks.py 860-909).                                      *)
(***************************************************************************)
PairLt(a, b) == a[1] < b[1] \/ (a[1] = b[1] /\ a[2] < b[2])

\* heapq.heappush: the heap is kept as the ascending sequence of its pairs,
\* so that heappop takes the head.
RECURSIVE HeapPush(_, _)
HeapPush(h, x) ==
  IF Len(h) = 0 THEN <<x>>
  ELSE IF PairLt(x, Head(h)) THEN <<x>> \o h
  ELSE <<Head(h)>> \o HeapPush(Tail(h), x)

\* heapq.heapify
RECURSIVE Heapify(_)
Heapify(l) == IF Len(l) = 0 THEN <<>> ELSE HeapPush(Heapify(Tail(l)), Head(l))

\* Node.ptr_blocks
PtrBlocks(node) ==
  IF node.level = 1 THEN <<>> ELSE SubSeq(node.ptrs, 1, node.item_count + 1)

\* Node.indirect_item_blocks: [ok, blocks]; every header is unpacked.
RECURSIVE IndirectBlocksFrom(_, _)
IndirectBlocksFrom(node, i) ==
  IF i > node.item_count THEN <<>>
  ELSE (IF ItemOf(node.items[i]).item.key.type = INDIRECT
          THEN node.items[i].body.blocks ELSE <<>>)
       \o IndirectBlocksFrom(node, i + 1)

IndirectItemBlocks(node) ==
  IF node.level # 1 THEN [ok |-> TRUE, blocks |-> <<>>]
  ELSE [ok |-> \A i \in 1..node.item_count : ItemOf(node.items[i]).ok,
        blocks |-> IndirectBlocksFrom(node, 1)]

BlockSectors(b) ==
  [i \in 1..SectorsPerBlock |-> b * SectorsPerBlock + i - 1]

\* The sectors _findTree appends for the block pointers of a leaf.
RECURSIVE DataSectors(_)
DataSectors(bs) ==
  IF Len(bs) = 0 THEN <<>>
  ELSE (IF Head(bs) = 0 THEN <<>> ELSE BlockSectors(Head(bs)))
       \o DataSectors(Tail(bs))

\* Every child pushed onto the heap of the current pass.
RECURSIVE PushChildrenSamePass(_, _, _, _, _)
PushChildrenSamePass(h, np, ptrs, block, level) ==
  IF Len(ptrs) = 0 THEN [heap |-> h, next_pass |-> np]
  ELSE PushChildrenSamePass(HeapPush(h, <<Head(ptrs), level>>), np, Tail(ptrs),
                            block, level)

\* The children of a node pushed by one pop: [heap, next_pass].
RECURSIVE PushChildren(_, _, _, _, _)
PushChildren(h, np, ptrs, block, level) ==
  IF Len(ptrs) = 0 THEN [heap |-> h, next_pass |-> np]
  ELSE IF Head(ptrs) < block
    THEN PushChildren(h, Append(np, <<Head(ptrs), level>>), Tail(ptrs), block, level)
    ELSE PushChildren(HeapPush(h, <<Head(ptrs), level>>), np, Tail(ptrs), block, level)

\* if node.level <= level_limit: continue
PrunedBelow(node, level_limit) == node.level < level_limit

Pruned(node, level_limit) == node.level <= level_limit

\* The traversal ends at an incomplete node.
Break(h, np) == [heap |-> <<>>, next_pass |-> <<>>]

\* `continue` after an incomplete node: the work that is left, [heap,
\* next_pass], is what it was after the pop.
Continue(h, np) == [heap |-> h, next_pass |-> np]

\* findTree: fs.init(), and the first lines of _findTree.
TreeStart ==
  /\ pc = "start" /\ cmd.name = "tree"
  /\ LET m == Mount(FsRec) IN
       /\ SetFs(m.F)
       /\ IF m.ok
            THEN /\ pc' = "tree"
                 /\ next_pass' = << <<root_block, -1>> >>
            ELSE /\ pc' = "tree_unmounted"
                 /\ next_pass' = <<>>
  /\ heap' = <<>>
  /\ counts' = [found |-> 1, incomplete |-> 0, partial |-> 0]
  /\ UNCHANGED <<pass, calls>>
  /\ UNCHANGED <<partition_start, map_size, cmd, out, errout, crashed>>
  /\ UNCHANGED <<notCmd, folderVars, catVars>>

\* while next_pass: heapify it and swap the two lists
TreePass ==
  /\ pc = "tree" /\ heap = <<>> /\ next_pass # <<>>
  /\ heap' = Heapify(next_pass)
  /\ next_pass' = <<>>
  /\ pass' = pass + 1
  /\ UNCHANGED <<counts, calls, cmdVars, fsVars, notCmd, folderVars, catVars>>

\* while heap: one pop and what follows it
TreePop ==
  /\ pc = "tree" /\ heap # <<>>
  /\ LET block == Head(heap)[1]
         r == ReadNode(FsRec, block)
         ind == IndirectItemBlocks(r.node)
     IN IF ~r.complete
          THEN /\ counts' = [counts EXCEPT !.incomplete = @ + 1,
                                           !.partial = IF r.none THEN @ ELSE @ + 1]
               /\ heap' = Continue(Tail(heap), next_pass).heap
               /\ next_pass' = Continue(Tail(heap), next_pass).next_pass
               /\ SetFs(r.F)
               /\ UNCHANGED <<pc, crashed>>
        ELSE IF Pruned(r.node, cmd.level_limit)
          THEN /\ heap' = Tail(heap)
               /\ SetFs(r.F)
               /\ UNCHANGED <<next_pass, counts, pc, crashed>>
        ELSE IF r.node.level > 1
          THEN LET c == PushChildren(Tail(heap), next_pass, PtrBlocks(r.node),
                                     block, r.node.level - 1)
               IN /\ heap' = c.heap
                  /\ next_pass' = c.next_pass
                  /\ counts' = [counts EXCEPT !.found = @ + Len(PtrBlocks(r.node))]
                  /\ SetFs(r.F)
                  /\ UNCHANGED <<pc, crashed>>
        ELSE IF ~ind.ok
          THEN /\ crashed' = "KeyError"
               /\ pc' = "done"
               /\ heap' = Tail(heap)
               /\ SetFs(r.F)
               /\ UNCHANGED <<next_pass, counts>>
          ELSE /\ heap' = Tail(heap)
               /\ SetFs([r.F EXCEPT !.sectors = SectorsExtend(@, DataSectors(ind.blocks))])
               /\ UNCHANGED <<next_pass, counts, pc, crashed>>
  /\ calls' = Append(calls, [pass |-> pass, block |-> Head(heap)[1]])
  /\ UNCHANGED pass
  /\ UNCHANGED <<partition_start, map_size, cmd, out, errout>>
  /\ UNCHANGED <<notCmd, folderVars, catVars>>

\* The end of _findTree (its three lines on stderr) and of findTree: sort
\* the sectors, add each to a RangeList, print it.
TreeFinish ==
  /\ \/ pc = "tree_unmounted"
     \/ pc = "tree" /\ heap = <<>> /\ next_pass = <<>>
  /\ LET sorted == SortInts(sectors.list)
         rl == AddAll(EmptyRangeList, [i \in 1..Len(sorted) |-> Range(sorted[i], 1)])
     IN /\ sectors' = [sectors EXCEPT !.list = sorted]
        /\ errout' = IF pc = "tree" THEN errout \o <<"found:", "incomplete:", "partial:">>
                     ELSE errout
        /\ IF rl.ok
             THEN /\ out' = out \o PrintRangelist(rl.items, SectorSize, partition_start)
                  /\ crashed' = "none"
             ELSE /\ out' = out
                  /\ crashed' = "AssertionError"
  /\ pc' = "done"
  /\ UNCHANGED <<partition_start, map_size, cmd, cache, reads, incomplete>>
  /\ UNCHANGED <<notCmd, treeVars, folderVars, catVars>>

(***************************************************************************)
(* SpecTree: the tree command on B-trees of one to three levels, of which  *)
(* up to MaxDamaged blocks are damaged in the rescue map.                  *)
(***************************************************************************)
\* A leaf of the tree images: a stat item and an INDIRECT item.
TreeLeaf(o, ptrs, free) ==
  Leaf(<<StatItem(2, o, 1, "REGULAR", 4096 * Len(ptrs)),
         IndirectItem(2, o, 1, 1, ptrs)>>, free)

TreeKeys(n) == [i \in 1..n |-> KeyPack(Key(2, 3 + i, Off(0), STAT, 1))]

TreeShapes(leafFree, nodeFree) ==
  { (18 :> TreeLeaf(3, <<50, 0, 51>>, leafFree)),
    (20 :> Internal(2, TreeKeys(1), <<18, 100>>, nodeFree)
     @@ 18 :> TreeLeaf(3, <<50, 0, 51>>, leafFree)
     @@ 100 :> TreeLeaf(4, <<52>>, leafFree)),
    (20 :> Internal(2, TreeKeys(2), <<100, 18, 30>>, nodeFree)
     @@ 18 :> TreeLeaf(3, <<50>>, leafFree)
     @@ 30 :> TreeLeaf(4, <<0, 53>>, leafFree)
     @@ 100 :> TreeLeaf(5, <<52>>, leafFree)),
    (40 :> Internal(3, TreeKeys(1), <<20, 60>>, nodeFree)
     @@ 20 :> Internal(2, TreeKeys(1), <<18, 100>>, nodeFree)
     @@ 60 :> Internal(2, TreeKeys(1), <<30, 70>>, nodeFree)
     @@ 18 :> TreeLeaf(3, <<50, 0, 51>>, leafFree)
     @@ 100 :> TreeLeaf(4, <<52>>, leafFree)
     @@ 30 :> TreeLeaf(5, <<53>>, leafFree)
     @@ 70 :> TreeLeaf(6, <<>>, leafFree)) }

\* The root of a tree image: the block of the highest level.
RootOf(d) == CHOOSE b \in DOMAIN d : \A c \in DOMAIN d : d[c].level <= d[b].level

\* The sectors a damaged block b lacks: all of them, the first, or the last.
Damage(b, pat) ==
  CASE pat = "all" -> { b * SectorsPerBlock + i : i \in 0..(SectorsPerBlock - 1) }
    [] pat = "first" -> { b * SectorsPerBlock }
    [] pat = "last" -> { b * SectorsPerBlock + SectorsPerBlock - 1 }

\* The rescue maps in which at most MaxDamaged of the blocks bs are damaged.
DamagedMaps(bs) ==
  { UNION { Damage(b, pat) : b \in dmg } :
      dmg \in { x \in SUBSET bs : Cardinality(x) <= MaxDamaged },
      pat \in {"all", "first", "last"} }

InitTree ==
  /\ RangeIdle /\ KeyIdle /\ LookupIdle /\ FsIdle
  /\ TreeIdle /\ FolderIdle /\ CatIdle /\ RestIdle /\ CmdStart
  /\ \E hdr \in { <<3000, InternalFree(2)>>, <<500, 3000>> } :
       disk \in TreeShapes(hdr[1], hdr[2])
  /\ root_block = RootOf(disk)
  /\ bad \in DamagedMaps(DOMAIN disk)
  /\ partition_start \in {0, 1024}
  /\ map_size = 0
  /\ cmd \in [name : {"tree"}, level_limit : 0..MaxLevel]

NextTree == TreeStart \/ TreePass \/ TreePop \/ TreeFinish

SpecTree == InitTree /\ [][NextTree]_vars

\* The command is one sequential program: it takes its next step as long
\* as it has one.  This is WF_vars(NextTree) with ENABLED <<NextTree>>_vars
\* written out: a step is possible exactly as long as pc is not "done".
SpecTreeFair ==
  SpecTree /\ ([]<>(pc = "done") \/ []<><<NextTree>>_vars)

(***************************************************************************)
(* regular_block_list (reiserfs_blocks.py 484-512) and cat (754-790).      *)
(***************************************************************************)
\* What the generator yields: a block pointer or a byte buffer of len bytes.
YieldBlock(b) == [bytes |-> FALSE, block |-> b, len |-> BlockSize]
YieldBytes(n) == [bytes |-> TRUE, block |-> 0, len |-> n]

\* The loop of regular_block_list over the items its, from the running size
\* on: [ok, size, gap, yields]; ok is FALSE when the assertion on an item's
\* offset fails, gap says whether the loop set incomplete.
RECURSIVE BlockListLoop(_, _)
BlockListLoop(its, size) ==
  IF Len(its) = 0 THEN [ok |-> TRUE, size |-> size, gap |-> FALSE, yields |-> <<>>]
  ELSE LET item == Head(its)
           offset == OffInt(item.key.offset)
           missing == IF offset > size THEN offset - size ELSE 0
           fill == [i \in 1..(missing \div BlockSize) |-> YieldBlock(0)]
                   \o (IF missing % BlockSize # 0
                         THEN <<YieldBytes(missing % BlockSize)>> ELSE <<>>)
           own == IF item.key.type = INDIRECT
                    THEN [i \in 1..(item.body.len \div 4) |-> YieldBlock(item.body.blocks[i])]
                  ELSE IF item.key.type = DIRECT
                    THEN <<YieldBytes(item.body.len)>>
                  ELSE <<>>
           grown == IF item.key.type = INDIRECT THEN (item.body.len \div 4) * BlockSize
                    ELSE IF item.key.type = DIRECT THEN item.body.len
                    ELSE 0
       IN IF offset < size
            THEN [ok |-> FALSE, size |-> size, gap |-> FALSE, yields |-> <<>>]
            ELSE LET rest == BlockListLoop(Tail(its), size + missing + grown) IN
                 [ok |-> rest.ok, size |-> rest.size,
                  gap |-> (missing > 0) \/ rest.gap,
                  yields |-> fill \o own \o rest.yields]

\* list(fs.regular_block_list(key)): [F, ok, yields]; ok is FALSE when an
\* exception ends the generator, yields is what it yielded until then.
RegularBlockList(F, key) ==
  LET keyStart == Key(key.dirid, key.objid, Off(1), STAT, 1)
      keyEnd == Key(key.dirid, key.objid + 1, Off(0), STAT, 1)
      Blocks(fi) ==
        LET expectedSize == IF fi.found THEN fi.item.body.size ELSE -1
            Items(it) ==
              LET Result(loop) ==
                    [F |-> [it.F EXCEPT !.incomplete =
                              @ \/ loop.gap \/ (loop.ok /\ loop.size < expectedSize)],
                     ok |-> loop.ok, yields |-> loop.yields]
              IN IF ~it.ok THEN [F |-> it.F, ok |-> FALSE, yields |-> <<>>]
                 ELSE Result(BlockListLoop(AllItems(it.steps), 1))
        IN IF ~fi.ok \/ (fi.found /\ fi.item.body.filetype # "REGULAR")
             THEN [F |-> fi.F, ok |-> FALSE, yields |-> <<>>]
             ELSE Items(IterItemsInRange(fi.F, keyStart, keyEnd))
  IN Blocks(FindItem(F, key))

\* The logical length of what was yielded.
RECURSIVE YieldedLength(_)
YieldedLength(ys) ==
  IF Len(ys) = 0 THEN 0 ELSE Head(ys).len + YieldedLength(Tail(ys))

\* cat's loop over the yields: the bytes written, each buffer cut so that
\* the total does not exceed expectedSize.
RECURSIVE CatWrite(_, _, _)
CatWrite(ys, currentSize, expectedSize) ==
  IF Len(ys) = 0 THEN currentSize
  ELSE LET toWrite == IF currentSize + Head(ys).len > expectedSize
                        THEN expectedSize - currentSize ELSE Head(ys).len
       IN CatWrite(Tail(ys), currentSize + toWrite, expectedSize)

\* The blocks cat reads with readBlock: the non-zero pointers yielded.
ReadForCat(ys) ==
  { ys[i].block : i \in { n \in 1..Len(ys) : ~ys[n].bytes /\ ys[n].block # 0 } }

\* path_to_key of a name of the form dirid_objid
IdKey(d, o) == Key(d, o, Off(0), STAT, 2)

\* cat(fs, name), name of the form dirid_objid.
CatCmd ==
  /\ pc = "start" /\ cmd.name = "cat"
  /\ LET key == IdKey(cmd.dirid, cmd.objid)
         Write(fi, rbl) ==
           LET expectedSize == fi.item.body.size
               currentSize == CatWrite(rbl.yields, 0, expectedSize)
           IN /\ SetFs([rbl.F EXCEPT !.reads = @ \cup ReadForCat(rbl.yields)])
              /\ written' = currentSize
              /\ yielded' = YieldedLength(rbl.yields)
              /\ crashed' = IF ~rbl.ok \/ expectedSize # currentSize
                              THEN "AssertionError" ELSE "none"
              /\ UNCHANGED errout
         Found(fi) ==
           IF ~fi.ok
             THEN /\ SetFs(fi.F)
                  /\ crashed' = "KeyError"
                  /\ UNCHANGED <<written, yielded, errout>>
           ELSE IF ~fi.found
             THEN /\ SetFs(fi.F)
                  /\ errout' = Append(errout, "Could not stat")
                  /\ UNCHANGED <<written, yielded, crashed>>
           ELSE IF fi.item.body.filetype # "REGULAR"
             THEN /\ SetFs(fi.F)
                  /\ errout' = Append(errout, "not a regular file")
                  /\ UNCHANGED <<written, yielded, crashed>>
           ELSE Write(fi, RegularBlockList([fi.F EXCEPT !.incomplete = FALSE], key))
         Mounted(m) ==
           IF ~m.ok
             THEN /\ SetFs(m.F)
                  /\ errout' = Append(errout, "Could not access superblock")
                  /\ UNCHANGED <<written, yielded, crashed>>
             ELSE Found(FindItem(m.F, key))
     IN Mounted(Mount(FsRec))
  /\ pc' = "done"
  /\ UNCHANGED <<partition_start, map_size, cmd, out>>
  /\ UNCHANGED <<notCmd, treeVars, folderVars>>

(***************************************************************************)
(* SpecCat: cat on one regular file, object (2, 3), between two neighbours *)
(* in a key-sorted tree.                                                   *)
(***************************************************************************)
\* The data items of the file, by layout.
FileData(layout, hver) ==
  CASE layout = "none"     -> <<>>
    [] layout = "tail7"    -> <<DirectItem(2, 3, 1, hver, 7)>>
    [] layout = "tail10"   -> <<DirectItem(2, 3, 1, hver, 10)>>
    [] layout = "block"    -> <<IndirectItem(2, 3, 1, hver, <<50>>)>>
    [] layout = "hole"     -> <<IndirectItem(2, 3, 1, hver, <<50, 0>>)>>
    [] layout = "blocktail" -> <<IndirectItem(2, 3, 1, hver, <<50>>),
                                 DirectItem(2, 3, 4097, hver, 904)>>
    [] layout = "gap"      -> <<DirectItem(2, 3, 4, hver, 7)>>
    [] layout = "blockgap" -> <<IndirectItem(2, 3, 1, hver, <<50>>),
                                IndirectItem(2, 3, 8198, hver, <<51>>)>>
    [] layout = "overlap"  -> <<DirectItem(2, 3, 1, hver, 7),
                                DirectItem(2, 3, 5, hver, 3)>>

Layouts == {"none", "tail7", "tail10", "block", "hole", "blocktail", "gap",
            "blockgap", "overlap"}

StatSizes == {0, 7, 8, 10, 4096, 5000}

CatItems(layout, hver, size) ==
  <<StatItem(1, 2, 0, "DIRECTORY", 48), DirItem(1, 2, <<>>, 48),
    StatItem(2, 3, hver, "REGULAR", size)>>
  \o FileData(layout, hver)
  \o <<StatItem(2, 4, hver, "REGULAR", 4096), IndirectItem(2, 4, 1, hver, <<60>>)>>

InitCat ==
  /\ RangeIdle /\ KeyIdle /\ LookupIdle /\ FsIdle
  /\ TreeIdle /\ FolderIdle /\ CatIdle /\ RestIdle /\ CmdStart
  /\ \E layout \in Layouts, hver \in {0, 1}, size \in StatSizes :
       \E cuts \in Cuts(Len(CatItems(layout, hver, size))) :
         disk = SplitTree(CatItems(layout, hver, size), cuts, 3000)
  /\ root_block = 18
  /\ bad \in {{}} \cup { Damage(b, "all") : b \in DOMAIN disk }
  /\ partition_start = 0
  /\ map_size = 0
  /\ cmd \in { [name |-> "cat", dirid |-> do[1], objid |-> do[2]] :
                 do \in {<<1, 2>>, <<2, 3>>, <<2, 5>>} }

NextCat == CatCmd

SpecCat == InitCat /\ [][NextCat]_vars

(***************************************************************************)
(* Directories and paths (reiserfs_blocks.py 514-530, 560-589) and folder  *)
(* (793-857).                                                              *)
(***************************************************************************)
RECURSIVE EntriesOf(_)
EntriesOf(its) ==
  IF Len(its) = 0 THEN <<>> ELSE Head(its).body.entries \o EntriesOf(Tail(its))

RECURSIVE BodyLength(_)
BodyLength(its) ==
  IF Len(its) = 0 THEN 0 ELSE Head(its).body.len + BodyLength(Tail(its))

\* fs.directory_list(key): [F, err, steps].  steps holds, for every leaf
\* the generator reads, the entries it yields there and the reader's fields
\* at that moment; F is the reader after the generator is exhausted.
DirectoryList(F, key) ==
  LET keyStart == Key(key.dirid, key.objid, Off(1), DIRECTORY, 1)
      keyEnd == Key(key.dirid, key.objid + 1, Off(0), STAT, 1)
      Listing(fi) ==
        LET expectedSize == IF fi.found THEN fi.item.body.size ELSE -1
            Entries(it) ==
              IF ~it.ok THEN [F |-> it.F, err |-> "KeyError", steps |-> <<>>]
              ELSE [F |-> [it.F EXCEPT !.incomplete =
                             @ \/ BodyLength(AllItems(it.steps)) # expectedSize],
                    err |-> "none",
                    steps |-> [i \in 1..Len(it.steps) |->
                                 [F |-> it.steps[i].F,
                                  entries |-> EntriesOf(it.steps[i].items)]]]
        IN IF ~fi.ok THEN [F |-> fi.F, err |-> "KeyError", steps |-> <<>>]
           ELSE IF fi.found /\ fi.item.body.filetype # "DIRECTORY"
             THEN [F |-> fi.F, err |-> "AssertionError", steps |-> <<>>]
           ELSE Entries(IterItemsInRange(fi.F, keyStart, keyEnd))
  IN Listing(FindItem(F, key))

\* The entries of all steps, in order.
RECURSIVE AllEntries(_)
AllEntries(steps) ==
  IF Len(steps) = 0 THEN <<>> ELSE Head(steps).entries \o AllEntries(Tail(steps))

\* fs.file_indirect_blocks(key): [F, ok, blocks]
RECURSIVE IndirectOf(_)
IndirectOf(its) ==
  IF Len(its) = 0 THEN <<>>
  ELSE (IF Head(its).key.type = INDIRECT THEN Head(its).body.blocks ELSE <<>>)
       \o IndirectOf(Tail(its))

FileIndirectBlocks(F, key) ==
  LET keyStart == Key(key.dirid, key.objid, Off(1), INDIRECT, 1)
      keyEnd == Key(key.dirid, key.objid + 1, Off(0), STAT, 1)
      Blocks(it) == [F |-> it.F, ok |-> it.ok, blocks |-> IndirectOf(AllItems(it.steps))]
  IN Blocks(IterItemsInRange(F, keyStart, keyEnd))

\* The loop of path_to_key over the parts of a name, from dirKey on:
\* [F, err, found, key].  The scan of a directory stops at the first entry
\* of the wanted name, and leaves the reader as the generator left it.
RECURSIVE ResolveParts(_, _, _)
ResolveParts(F, dirKey, parts) ==
  IF Len(parts) = 0 THEN [F |-> F, err |-> "none", found |-> TRUE, key |-> dirKey]
  ELSE LET Scan(dl) ==
             LET hits == { i \in 1..Len(dl.steps) :
                             \E j \in 1..Len(dl.steps[i].entries) :
                               dl.steps[i].entries[j].name = Head(parts) }
             IN IF dl.err # "none"
                  THEN [F |-> dl.F, err |-> dl.err, found |-> FALSE, key |-> NoKey]
                ELSE IF hits = {}
                  THEN [F |-> dl.F, err |-> "none", found |-> FALSE, key |-> NoKey]
                ELSE LET i == CHOOSE x \in hits : \A y \in hits : x <= y
                         es == dl.steps[i].entries
                         j == CHOOSE x \in 1..Len(es) :
                                /\ es[x].name = Head(parts)
                                /\ \A y \in 1..(x - 1) : es[y].name # Head(parts)
                     IN ResolveParts(dl.steps[i].F,
                                     Key(es[j].dirid, es[j].objid, Off(0), STAT, 2),
                                     Tail(parts))
       IN Scan(DirectoryList(F, dirKey))

\* fs.path_to_key(name).  A name is [exclude, rooted, id, parts]: rooted
\* names start at Key(1, 2, 0, STAT, 2), the others at the dirid_objid they
\* begin with.
PathToKey(F, name) ==
  ResolveParts(F, IF name.rooted THEN Key(1, 2, Off(0), STAT, 2)
                  ELSE IdKey(name.id[1], name.id[2]), name.parts)

\* The first loop of findFolder, over the names from the i-th on:
\* [F, err, found, keys, excl].
RECURSIVE ResolveNames(_, _, _, _, _)
ResolveNames(F, names, i, keys, excl) ==
  IF i > Len(names)
    THEN [F |-> F, err |-> "none", found |-> TRUE, keys |-> keys, excl |-> excl]
  ELSE LET Take(r) ==
             IF r.err # "none" \/ ~r.found
               THEN [F |-> r.F, err |-> r.err, found |-> FALSE, keys |-> keys, excl |-> excl]
             ELSE IF names[i].exclude
               THEN ResolveNames(r.F, names, i + 1, keys, excl \cup {r.key.objid})
               ELSE ResolveNames(r.F, names, i + 1, Append(keys, r.key), excl)
       IN Take(PathToKey(F, names[i]))

\* findFolder up to its main loop.
FolderStart ==
  /\ pc = "start" /\ cmd.name = "folder"
  /\ LET Resolved(r) ==
           IF r.err # "none"
             THEN /\ SetFs(r.F)
                  /\ crashed' = r.err
                  /\ pc' = "done"
                  /\ UNCHANGED <<out, errout, folderVars>>
           ELSE IF ~r.found
             THEN /\ SetFs(r.F)
                  /\ errout' = Append(errout, "Could not find")
                  /\ pc' = "done"
                  /\ UNCHANGED <<out, crashed, folderVars>>
           ELSE /\ SetFs([r.F EXCEPT !.sectors = SetListSectors])
                /\ keysRemaining' = r.keys
                /\ excludeIds' = r.excl
                /\ blockSet' = {}
                /\ pc' = "folder"
                /\ UNCHANGED <<out, errout, crashed>>
         Mounted(m) ==
           IF ~m.ok
             THEN /\ SetFs(m.F)
                  /\ out' = out \o PrintRangelist(RangeListAdd(<<>>, 65536, 512).items,
                                                  1, partition_start)
                  /\ pc' = "done"
                  /\ UNCHANGED <<errout, crashed, folderVars>>
             ELSE Resolved(ResolveNames(m.F, cmd.names, 1, <<>>, {}))
     IN Mounted(Mount(FsRec))
  /\ UNCHANGED <<partition_start, map_size, cmd>>
  /\ UNCHANGED <<notCmd, treeVars, catVars>>

\* The entries a directory's listing enqueues.
RECURSIVE Enqueue(_, _, _)
Enqueue(keys, es, excl) ==
  IF Len(es) = 0 THEN keys
  ELSE IF Head(es).name \in {".", ".."} \/ Head(es).objid \in excl
    THEN Enqueue(keys, Tail(es), excl)
    ELSE Enqueue(Append(keys, Key(Head(es).dirid, Head(es).objid, Off(0), STAT, 2)),
                 Tail(es), excl)

\* blocks.update(fs.file_indirect_blocks(key))
BlocksUpdate(bset, bs) == bset \cup { bs[i] : i \in 1..Len(bs) }

\* One round of the main loop of findFolder.
FolderStep ==
  /\ pc = "folder" /\ keysRemaining # <<>>
  /\ LET key == Last(keysRemaining)
         rest == SubSeq(keysRemaining, 1, Len(keysRemaining) - 1)
         Listed(dl) ==
           IF dl.err # "none"
             THEN /\ SetFs(dl.F) /\ crashed' = dl.err /\ pc' = "done"
                  /\ keysRemaining' = rest /\ UNCHANGED blockSet
             ELSE /\ SetFs(dl.F)
                  /\ keysRemaining' = Enqueue(rest, AllEntries(dl.steps), excludeIds)
                  /\ UNCHANGED <<crashed, pc, blockSet>>
         Pointed(fb) ==
           IF ~fb.ok
             THEN /\ SetFs(fb.F) /\ crashed' = "KeyError" /\ pc' = "done"
                  /\ keysRemaining' = rest /\ UNCHANGED blockSet
             ELSE /\ SetFs(fb.F) /\ keysRemaining' = rest
                  /\ blockSet' = IF cmd.metadata_only THEN blockSet
                                 ELSE BlocksUpdate(blockSet, fb.blocks)
                  /\ UNCHANGED <<crashed, pc>>
         Stat(fi) ==
           IF ~fi.ok
             THEN /\ SetFs(fi.F) /\ crashed' = "KeyError" /\ pc' = "done"
                  /\ keysRemaining' = rest /\ UNCHANGED blockSet
           ELSE IF ~fi.found
             THEN /\ SetFs(fi.F) /\ keysRemaining' = rest
                  /\ UNCHANGED <<crashed, pc, blockSet>>
           ELSE IF fi.item.body.filetype = "DIRECTORY"
             THEN Listed(DirectoryList(fi.F, key))
           ELSE IF fi.item.body.filetype = "REGULAR"
             THEN Pointed(FileIndirectBlocks(fi.F, key))
           ELSE /\ SetFs(fi.F) /\ keysRemaining' = rest
                /\ UNCHANGED <<crashed, pc, blockSet>>
     IN Stat(FindItem(FsRec, key))
  /\ UNCHANGED excludeIds
  /\ UNCHANGED <<partition_start, map_size, cmd, out, errout>>
  /\ UNCHANGED <<notCmd, treeVars, catVars>>

\* ranges.sort(): Range orders by start, then size.
SortRanges(s) ==
  LET n == Len(s)
      lt(a, b) == a.start < b.start \/ (a.start = b.start /\ a.size < b.size)
      place == [i \in 1..n |->
                  1 + Cardinality({ j \in 1..n : lt(s[j], s[i]) \/ (s[j] = s[i] /\ j < i) })]
  IN [r \in 1..n |-> s[CHOOSE i \in 1..n : place[i] = r]]

\* The end of findFolder: the ranges of the data blocks and of the touched
\* sectors, sorted together, added to one RangeList and printed.
FolderFinish ==
  /\ pc = "folder" /\ keysRemaining = <<>>
  /\ LET bl == SortedSeq(blockSet)
         byBlock == AddAll(EmptyRangeList,
                           [i \in 1..Len(bl) |-> Range(bl[i] * SectorsPerBlock, SectorsPerBlock)])
         sorted == SortedSeq(sectors.set)
         bySector == AddAll(EmptyRangeList, [i \in 1..Len(sorted) |-> Range(sorted[i], 1)])
         ranges == SortRanges(byBlock.items \o bySector.items)
         rl == AddAll(EmptyRangeList, ranges)
     IN /\ sectors' = [isSet |-> FALSE, list |-> sorted, set |-> {}]
        /\ IF rl.ok
             THEN /\ out' = out \o PrintRangelist(rl.items, SectorSize, partition_start)
                  /\ UNCHANGED crashed
             ELSE /\ crashed' = "AssertionError"
                  /\ UNCHANGED out
  /\ pc' = "done"
  /\ UNCHANGED <<partition_start, map_size, cmd, errout, cache, reads, incomplete>>
  /\ UNCHANGED <<notCmd, treeVars, folderVars, catVars>>

(***************************************************************************)
(* SpecFolder: folder on the directories /, /a, /a/b and /a/c.  /a/b holds *)
(* the file f; /a/c holds the file g and, by option, a file h whose objid  *)
(* is that of /a/b and a hard link k to f.                                 *)
(***************************************************************************)
Entry(name, d, o) == [name |-> name, dirid |-> d, objid |-> o]

Dots(d, o, pd, po) == <<Entry(".", d, o), Entry("..", pd, po)>>

FolderItems(zero, collide, link) ==
  <<StatItem(1, 2, 0, "DIRECTORY", 48),
    DirItem(1, 2, Dots(1, 2, 1, 2) \o <<Entry("a", 2, 3)>>, 48),
    StatItem(2, 3, 0, "DIRECTORY", 72),
    DirItem(2, 3, Dots(2, 3, 1, 2) \o <<Entry("b", 3, 4), Entry("c", 3, 5)>>, 72),
    StatItem(3, 4, 0, "DIRECTORY", 48),
    DirItem(3, 4, Dots(3, 4, 2, 3) \o <<Entry("f", 4, 6)>>, 48),
    StatItem(3, 5, 0, "DIRECTORY", 96),
    DirItem(3, 5, Dots(3, 5, 2, 3) \o <<Entry("g", 5, 7)>>
                  \o (IF collide THEN <<Entry("h", 5, 4)>> ELSE <<>>)
                  \o (IF link THEN <<Entry("k", 4, 6)>> ELSE <<>>), 96),
    StatItem(4, 6, 1, "REGULAR", 4096),
    IndirectItem(4, 6, 1, 1, <<50>>)>>
  \o (IF collide
        THEN <<StatItem(5, 4, 1, "REGULAR", 4096), IndirectItem(5, 4, 1, 1, <<62>>)>>
        ELSE <<>>)
  \o <<StatItem(5, 7, 1, "REGULAR", 8192),
       IndirectItem(5, 7, 1, 1, IF zero THEN <<60, 0>> ELSE <<60, 61>>)>>

\* The places where the item list may be cut into leaves.
FolderCuts == { SortedSeq(c) : c \in { c \in SUBSET {2, 6, 9} : Cardinality(c) < MaxLeaves } }

Name(exclude, parts) == [exclude |-> exclude, rooted |-> TRUE, id |-> <<1, 2>>, parts |-> parts]

IdName(d, o) == [exclude |-> FALSE, rooted |-> FALSE, id |-> <<d, o>>, parts |-> <<>>]

FolderNames ==
  { <<Name(FALSE, <<"a">>), Name(TRUE, <<"a", "b">>)>>,
    <<Name(TRUE, <<"a", "b">>), Name(FALSE, <<"a">>)>>,
    <<Name(FALSE, <<>>)>>,
    <<Name(FALSE, <<"a", "c">>)>>,
    <<Name(FALSE, <<"a", "x">>)>>,
    <<Name(FALSE, <<"a", "c", "g", "y">>)>>,
    <<IdName(2, 3), Name(TRUE, <<"a", "b">>)>>,
    <<IdName(3, 5)>> }

InitFolder ==
  /\ RangeIdle /\ KeyIdle /\ LookupIdle /\ FsIdle
  /\ TreeIdle /\ FolderIdle /\ CatIdle /\ RestIdle /\ CmdStart
  /\ \E zero \in BOOLEAN, collide \in BOOLEAN, link \in BOOLEAN :
       \E cuts \in FolderCuts :
         disk = SplitTree(FolderItems(zero, collide, link), cuts, 3000)
  /\ root_block = 18
  /\ bad \in {{}, {SuperSector}} \cup { Damage(b, "all") : b \in DOMAIN disk }
  /\ partition_start \in {0, 1024}
  /\ map_size = 0
  /\ cmd \in [name : {"folder"}, names : FolderNames, metadata_only : BOOLEAN]

NextFolder == FolderStart \/ FolderStep \/ FolderFinish

SpecFolder == InitFolder /\ [][NextFolder]_vars

(***************************************************************************)
(* The commands on an image whose superblock cannot be mounted.  bitmap,   *)
(* ls and find are modelled up to the return that follows a failed         *)
(* fs.init() (reiserfs_blocks.py 912-917, 646-649, 627-630).               *)
(***************************************************************************)
BitmapUnmounted ==
  /\ pc = "start" /\ cmd.name = "bitmap"
  /\ ~Mount(FsRec).ok
  /\ SetFs(Mount(FsRec).F)
  /\ out' = out \o PrintRangelist(RangeListAdd(<<>>, 65536, 512).items, 1, partition_start)
  /\ pc' = "done"
  /\ UNCHANGED <<partition_start, map_size, cmd, errout, crashed>>
  /\ UNCHANGED <<notCmd, treeVars, folderVars, catVars>>

LsUnmounted ==
  /\ pc = "start" /\ cmd.name = "ls"
  /\ ~Mount(FsRec).ok
  /\ SetFs(Mount(FsRec).F)
  /\ errout' = Append(errout, "Could not access superblock")
  /\ pc' = "done"
  /\ UNCHANGED <<partition_start, map_size, cmd, out, crashed>>
  /\ UNCHANGED <<notCmd, treeVars, folderVars, catVars>>

FindUnmounted ==
  /\ pc = "start" /\ cmd.name = "find"
  /\ ~Mount(FsRec).ok
  /\ SetFs(Mount(FsRec).F)
  /\ errout' = Append(errout, "Could not access superblock")
  /\ pc' = "done"
  /\ UNCHANGED <<partition_start, map_size, cmd, out, crashed>>
  /\ UNCHANGED <<notCmd, treeVars, folderVars, catVars>>

\* The sizes of the rescue maps of the images: sixteen or twenty blocks
\* beyond the partition's start follow the superblock's block.
MapSizes == { 65536 + n * BlockSize : n \in {16, 20} }

InitBadSb ==
  /\ RangeIdle /\ KeyIdle /\ LookupIdle /\ FsIdle
  /\ TreeIdle /\ FolderIdle /\ CatIdle /\ RestIdle /\ CmdStart
  /\ \E zero \in BOOLEAN :
       disk = SplitTree(FolderItems(zero, FALSE, FALSE), <<>>, 3000)
  /\ root_block = 18
  /\ bad \in { {SuperSector}, {SuperSector, SuperSector + 1},
              {SuperSector} \cup Damage(18, "all") }
  /\ partition_start \in {0, 1024}
  /\ \E n \in MapSizes : map_size = partition_start + n
  /\ cmd \in [name : {"tree"}, level_limit : 0..MaxLevel]
       \cup [name : {"folder"}, names : FolderNames, metadata_only : BOOLEAN]
       \cup [name : {"cat"}, dirid : {1, 4}, objid : {2, 6}]
       \cup [name : {"bitmap"}, metadata_only : BOOLEAN]
       \cup [name : {"ls"}, recurse : BOOLEAN]
       \cup [name : {"find"}]

NextBadSb ==
  \/ TreeStart \/ TreeFinish \/ FolderStart \/ CatCmd
  \/ BitmapUnmounted \/ LsUnmounted \/ FindUnmounted

SpecBadSb == InitBadSb /\ [][NextBadSb]_vars

(***************************************************************************)
(* SpecPrint: a RangeList built by add calls, then handed to               *)
(* print_rangelist with some multiplier (reiserfs_blocks.py 948-957).      *)
(***************************************************************************)
PartitionStarts == {0, 5, 1024}

Multipliers == {1, 512, 4096}

AddRange(start, size) ==
  /\ pc = "start"
  /\ Add(start, size)

PrintList(mult) ==
  /\ pc = "start"
  /\ ~rl_failed
  /\ out' = PrintRangelist(items, mult, partition_start)
  /\ cmd' = [name |-> "print", mult |-> mult]
  /\ pc' = "printed"
  /\ UNCHANGED <<partition_start, map_size, errout, crashed>>
  /\ UNCHANGED <<rangeVars, keyVars, diskVars, fsVars, lookupVars, treeVars,
                 folderVars, catVars, restVars>>

InitPrint ==
  /\ RangeIdle /\ KeyIdle /\ DiskIdle /\ FsIdle /\ LookupIdle
  /\ TreeIdle /\ FolderIdle /\ CatIdle /\ RestIdle
  /\ partition_start \in PartitionStarts
  /\ map_size = 0
  /\ cmd = NoCmd
  /\ CmdStart

NextPrint ==
  \/ \E start \in 0..MaxStart, size \in 1..MaxSize : AddRange(start, size)
  \/ \E mult \in Multipliers : PrintList(mult)

SpecPrint == InitPrint /\ [][NextPrint]_vars

(***************************************************************************)
(* SpecMap: one lookup in a rescue map (parse_ddrescue.py 162-192).        *)
(***************************************************************************)
MaxEntries == 3

\* Three of the five values of Status.
StatusSamples == {"+", "-", "?"}

Entry3(start, size, status) == [start |-> start, size |-> size, status |-> status]

\* bisect.bisect_left(a, (x,)): a tuple (start, size, status) sorts before
\* the 1-tuple (x,) exactly when start < x.
RECURSIVE BisectLeft(_, _, _, _)
BisectLeft(a, x, lo, hi) ==
  IF lo < hi
    THEN LET mid == (lo + hi) \div 2 IN
         IF a[mid + 1].start < x
           THEN BisectLeft(a, x, mid + 1, hi)
           ELSE BisectLeft(a, x, lo, mid)
    ELSE lo

Returned(status) == [done |-> TRUE, err |-> "none", status |-> status]

Raised(err) == [done |-> TRUE, err |-> err, status |-> "none"]

\* RescueMap.__getitem__(position) for an integer position.
RescueMapGet(ranges, offset, pos) ==
  LET position == pos + offset
      i == BisectLeft(ranges, position, 0, Len(ranges))
  IN
  IF i # Len(ranges) /\ ranges[i + 1].start = position
    THEN Returned(ranges[i + 1].status)
  ELSE IF i # 0
    THEN LET item == ranges[i] IN
         IF item.start <= position /\ item.start + item.size > position
           THEN Returned(item.status)
           ELSE Raised("AssertionError")
    ELSE Raised("ValueError")

\* RescueMap.size()
RescueMapSize(ranges) == Last(ranges).start + Last(ranges).size

\* The maps of up to n entries of positive size, each starting where the
\* previous one ended, as ddrescue writes them.
RECURSIVE GapFreeMaps(_, _)
GapFreeMaps(start, n) ==
  IF n = 0 THEN {<<>>}
  ELSE {<<>>} \cup
       UNION { { <<Entry3(start, size, st)>> \o rest :
                   rest \in GapFreeMaps(start + size, n - 1) } :
               size \in 1..MaxSize, st \in StatusSamples }

GetItem(pos) ==
  /\ ~rm_result.done
  /\ rm_position' = pos
  /\ rm_result' = RescueMapGet(rm_ranges, partition_start, pos)
  /\ UNCHANGED <<rm_ranges, compared, nodeVars, bitmapVars, full_name>>
  /\ UNCHANGED <<rangeVars, keyVars, diskVars, fsVars, lookupVars, cmdVars,
                 treeVars, folderVars, catVars>>

InitMap ==
  /\ RangeIdle /\ KeyIdle /\ DiskIdle /\ FsIdle /\ LookupIdle
  /\ TreeIdle /\ FolderIdle /\ CatIdle
  /\ partition_start \in {0, 1}
  /\ \E first \in {0, 2} : rm_ranges \in GapFreeMaps(first, MaxEntries) \ {<<>>}
  /\ map_size = RescueMapSize(rm_ranges)
  /\ cmd = NoCmd
  /\ pc = "idle"
  /\ out = <<>>
  /\ errout = <<>>
  /\ crashed = "none"
  /\ rm_position = 0
  /\ rm_result = NoLookup
  /\ NodeIdle /\ BitmapIdle
  /\ compared = {}
  /\ full_name = <<>>

NextMap == \E pos \in -1 .. 2 + MaxEntries * MaxSize : GetItem(pos)

SpecMap == InitMap /\ [][NextMap]_vars

(***************************************************************************)
(* SpecCompare: one call of find_item, iter_items_in_range,                *)
(* regular_block_list, directory_list or file_indirect_blocks on the       *)
(* images of the folder command, with the pairs of keys that ptr_find,     *)
(* ptr_find_range and item_find_range compare (reiserfs_blocks.py 111-203).*)
(***************************************************************************)
Pair(a, b) == [a |-> a, b |-> b]

\* The embedded keys j of from..to that the loops reach and unpack.
KeysUpTo(node, from, to) ==
  { j \in from..to : j <= node.item_count /\ KeyUnpack(node.keys[j]).ok }

\* ptr_find: `ikey > key` for the keys up to the one that ends the loop;
\* none when the assertion on key.type fails.
PtrFindCompared(node, key) ==
  IF key.type # STAT THEN {}
  ELSE { Pair(KeyUnpack(node.keys[j]).key, key) :
           j \in KeysUpTo(node, 1, FirstGreater(node, key, 1)) }

\* ptr_find_range: `tmpkey > keyStart` in the first loop, `tmpkey >= keyEnd`
\* in the second.
PtrFindRangeCompared(node, keyStart, keyEnd) ==
  LET start == FirstGreater(node, keyStart, 1)
      end   == FirstGreaterEq(node, keyEnd, start)
  IN { Pair(KeyUnpack(node.keys[j]).key, keyStart) : j \in KeysUpTo(node, 1, start) }
     \cup IF Unpackable(node, start)
            THEN { Pair(KeyUnpack(node.keys[j]).key, keyEnd) :
                     j \in KeysUpTo(node, start, end) }
            ELSE {}

\* item_find_range: `keyStart <= hdr.key and hdr.key < keyEnd` for every
\* header up to the first that cannot be unpacked.
ItemFindRangeCompared(node, keyStart, keyEnd) ==
  LET reached == { i \in 1..node.item_count :
                     \A j \in 1..i : ItemOf(node.items[j]).ok }
  IN { Pair(keyStart, ItemOf(node.items[i]).item.key) : i \in reached }
     \cup { Pair(ItemOf(node.items[i]).item.key, keyEnd) :
              i \in { n \in reached : KeyLe(keyStart, ItemOf(node.items[n]).item.key) } }

\* The comparisons of find_item(key) from treeBlock on.
RECURSIVE FindCompared(_, _)
FindCompared(treeBlock, key) ==
  LET r == NodeResult(treeBlock) IN
  IF ~r.complete \/ r.node.level = 1 THEN {}
  ELSE PtrFindCompared(r.node, key)
       \cup IF PtrFind(r.node, key).ok
              THEN FindCompared(PtrFind(r.node, key).block, key)
              ELSE {}

\* The comparisons of list(iter_items_in_range(keyStart, keyEnd, treeBlock)).
RECURSIVE IterCompared(_, _, _)
IterCompared(keyStart, keyEnd, treeBlock) ==
  LET r == NodeResult(treeBlock) IN
  IF ~r.complete THEN {}
  ELSE IF r.node.level = 1 THEN ItemFindRangeCompared(r.node, keyStart, keyEnd)
  ELSE PtrFindRangeCompared(r.node, keyStart, keyEnd)
       \cup IF PtrFindRange(r.node, keyStart, keyEnd).ok
              THEN UNION { IterCompared(keyStart, keyEnd,
                             PtrFindRange(r.node, keyStart, keyEnd).blocks[i]) :
                           i \in 1..Len(PtrFindRange(r.node, keyStart, keyEnd).blocks) }
              ELSE {}

\* The keys the callers hand to the five methods.
StatKeys == { Key(x[1], x[2], Off(0), STAT, 2) :
                x \in {<<1, 2>>, <<2, 3>>, <<3, 5>>, <<4, 6>>, <<5, 7>>, <<9, 9>>} }

RangeStart(key, type) == Key(key.dirid, key.objid, Off(1), type, 1)

RangeEndKey(key) == Key(key.dirid, key.objid + 1, Off(0), STAT, 1)

Ran(name, key) ==
  /\ cmd' = [name |-> name, key |-> key]
  /\ pc' = "done"
  /\ UNCHANGED <<partition_start, map_size, out, errout>>
  /\ UNCHANGED <<rangeVars, keyVars, diskVars, lookupVars, treeVars, folderVars,
                 catVars, mapVars, nodeVars, bitmapVars, full_name>>

CmpFindItem(key) ==
  /\ pc = "start"
  /\ LET r == FindItem(FsRec, key) IN
       /\ SetFs(r.F)
       /\ crashed' = IF r.ok THEN "none" ELSE "KeyError"
  /\ compared' = compared \cup FindCompared(root_block, key)
  /\ Ran("find_item", key)

CmpIterItemsInRange(key, type) ==
  /\ pc = "start"
  /\ LET r == IterItemsInRange(FsRec, RangeStart(key, type), RangeEndKey(key)) IN
       /\ SetFs(r.F)
       /\ crashed' = IF r.ok THEN "none" ELSE "KeyError"
  /\ compared' = compared
                   \cup IterCompared(RangeStart(key, type), RangeEndKey(key), root_block)
  /\ Ran("iter_items_in_range", RangeStart(key, type))

CmpRegularBlockList(key) ==
  /\ pc = "start"
  /\ LET r == RegularBlockList(FsRec, key)
         fi == FindItem(FsRec, key)
     IN
       /\ SetFs(r.F)
       /\ crashed' = IF r.ok THEN "none" ELSE "Error"
       /\ compared' = compared \cup FindCompared(root_block, key)
            \cup IF fi.ok /\ (fi.found => fi.item.body.filetype = "REGULAR")
                   THEN IterCompared(RangeStart(key, STAT), RangeEndKey(key), root_block)
                   ELSE {}
  /\ Ran("regular_block_list", key)

CmpDirectoryList(key) ==
  /\ pc = "start"
  /\ LET r == DirectoryList(FsRec, key)
         fi == FindItem(FsRec, key)
     IN
       /\ SetFs(r.F)
       /\ crashed' = r.err
       /\ compared' = compared \cup FindCompared(root_block, key)
            \cup IF fi.ok /\ (fi.found => fi.item.body.filetype = "DIRECTORY")
                   THEN IterCompared(RangeStart(key, DIRECTORY), RangeEndKey(key),
                                     root_block)
                   ELSE {}
  /\ Ran("directory_list", key)

CmpFileIndirectBlocks(key) ==
  /\ pc = "start"
  /\ LET r == FileIndirectBlocks(FsRec, key) IN
       /\ SetFs(r.F)
       /\ crashed' = IF r.ok THEN "none" ELSE "KeyError"
  /\ compared' = compared
                   \cup IterCompared(RangeStart(key, INDIRECT), RangeEndKey(key), root_block)
  /\ Ran("file_indirect_blocks", key)

InitCompare ==
  /\ RangeIdle /\ KeyIdle /\ LookupIdle /\ FsIdle
  /\ TreeIdle /\ FolderIdle /\ CatIdle /\ RestIdle /\ CmdStart
  /\ \E zero \in BOOLEAN, collide \in BOOLEAN, link \in BOOLEAN :
       \E cuts \in FolderCuts :
         disk = SplitTree(FolderItems(zero, collide, link), cuts, 3000)
  /\ root_block = 18
  /\ bad \in {{}} \cup { Damage(b, "all") : b \in DOMAIN disk }
  /\ partition_start = 0
  /\ map_size = 0
  /\ cmd = NoCmd

NextCompare ==
  \E key \in StatKeys :
    \/ CmpFindItem(key)
    \/ \E type \in {STAT, INDIRECT, DIRECTORY} : CmpIterItemsInRange(key, type)
    \/ CmpRegularBlockList(key)
    \/ CmpDirectoryList(key)
    \/ CmpFileIndirectBlocks(key)

SpecCompare == InitCompare /\ [][NextCompare]_vars

(***************************************************************************)
(* SpecNode: readNode on one block, for a range of node headers and of     *)
(* sector statuses, called once and once more (reiserfs_blocks.py 427-459).*)
(***************************************************************************)
NodeBlock == 20

\* Headers of a leaf and of internal nodes, well-formed ones and ones whose
\* item_count or free_space does not fit the block.
Headers ==
  [level : {1, 2, 3}, item_count : {0, 1, 20, 150, 170},
   free_space : {0, 500, 3000, 4072, 65535}]

NodeOfHeader(h) ==
  [level |-> h.level, item_count |-> h.item_count, free_space |-> h.free_space,
   keys |-> <<>>, ptrs |-> <<>>, items |-> <<>>]

ReadNodeCall ==
  /\ rn_result.done => ~rn_result.again
  /\ LET r == ReadNode(FsRec, rn_block) IN
       /\ SetFs(r.F)
       /\ rn_result' = [done |-> TRUE, again |-> rn_result.done,
                        complete |-> r.complete, none |-> r.none, node |-> r.node]
  /\ UNCHANGED <<rn_block, mapVars, compared, bitmapVars, full_name>>
  /\ UNCHANGED <<rangeVars, keyVars, diskVars, lookupVars, cmdVars, treeVars,
                 folderVars, catVars>>

InitNode ==
  /\ RangeIdle /\ KeyIdle /\ LookupIdle /\ FsIdle /\ CmdIdle
  /\ TreeIdle /\ FolderIdle /\ CatIdle
  /\ MapIdle /\ BitmapIdle /\ compared = {} /\ full_name = <<>>
  /\ \E h \in Headers : disk = (NodeBlock :> NodeOfHeader(h))
  /\ root_block = NodeBlock
  /\ bad \in SUBSET { NodeBlock * SectorsPerBlock + i : i \in {0, 1, 6, 7, 8} }
  /\ rn_block = NodeBlock
  /\ rn_result = [done |-> FALSE]

NextNode == ReadNodeCall

SpecNode == InitNode /\ [][NextNode]_vars

(***************************************************************************)
(* SpecBitmap: the bitmap command on a mounted image (reiserfs_blocks.py   *)
(* 912-945).  The image is the bits set in each bitmap block; the rescue   *)
(* map is damaged at the first or second sector of a bitmap block.         *)
(***************************************************************************)
BitsPerBlock == BlockSize * 8

\* The block after the superblock's: 65536 // fs.block_size + 1.
FirstBitmap == 65536 \div BlockSize + 1

\* range(fs.block_size * 8, fs.superblock.block_count, fs.block_size * 8)
LaterBitmaps(count) ==
  { k * BitsPerBlock : k \in 1 .. ((count - 1) \div BitsPerBlock) }

BitmapBlocks(count) == {FirstBitmap} \cup LaterBitmaps(count)

\* The first block a bitmap block describes: markUsed's pos.
BitmapBase(b) == IF b = FirstBitmap THEN 0 ELSE b

\* The bits set in the bitmap blocks of the images.
BitSamples == {0, FirstBitmap, FirstBitmap + 1, BitsPerBlock - 1}

\* markUsed(rangelist, pos, bitmap): one add per bit set, in ascending order.
MarkUsed(acc, pos, bits) ==
  LET s == SortedSeq(bits)
  IN AddAll(acc, [i \in 1..Len(s) |-> Range(pos + s[i], 1)])

\* readBlock, the rescue map's status of the block's first byte, markUsed.
BitmapStep(acc, b) ==
  MarkUsed(IF IsFinished(b * SectorsPerBlock) THEN acc
           ELSE AddAll(acc, <<Range(b, 1)>>),
           BitmapBase(b), bitmap[b])

RECURSIVE BitmapLoop(_, _)
BitmapLoop(acc, bs) ==
  IF Len(bs) = 0 THEN acc
  ELSE BitmapLoop(BitmapStep(acc, Head(bs)), Tail(bs))

\* The rangelist of the metadataOnly branch.
BitmapMetadata(count) ==
  AddAll(EmptyRangeList,
         <<Range(FirstBitmap - 1, 1), Range(FirstBitmap, 1)>>
         \o [i \in 1..Cardinality(LaterBitmaps(count)) |->
               Range(SortedSeq(LaterBitmaps(count))[i], 1)])

FindBitmap ==
  /\ pc = "start" /\ cmd.name = "bitmap"
  /\ Mount(FsRec).ok
  /\ SetFs(Mount(FsRec).F)
  /\ LET Done(r) ==
           /\ items' = r.items
           /\ rl_failed' = ~r.ok
           /\ crashed' = IF r.ok THEN "none" ELSE "AssertionError"
           /\ out' = IF r.ok
                       THEN out \o PrintRangelist(r.items, BlockSize, partition_start)
                       ELSE out
     IN Done(IF cmd.metadata_only
               THEN BitmapMetadata(block_count)
               ELSE BitmapLoop(EmptyRangeList,
                               SortedSeq(BitmapBlocks(block_count))))
  /\ pc' = "done"
  /\ UNCHANGED <<partition_start, map_size, cmd, errout>>
  /\ UNCHANGED <<added, preorder, keyVars, diskVars, lookupVars, treeVars,
                 folderVars, catVars, mapVars, compared, nodeVars, bitmapVars,
                 full_name>>

InitBitmap ==
  /\ RangeIdle /\ KeyIdle /\ LookupIdle /\ FsIdle
  /\ TreeIdle /\ FolderIdle /\ CatIdle
  /\ MapIdle /\ NodeIdle /\ compared = {} /\ full_name = <<>>
  /\ CmdStart
  /\ disk = <<>> /\ root_block = 0
  /\ block_count \in {BitsPerBlock, BitsPerBlock + 1}
  /\ bitmap \in [BitmapBlocks(block_count) -> SUBSET BitSamples]
  /\ bad \in SUBSET { FirstBitmap * SectorsPerBlock,
                      FirstBitmap * SectorsPerBlock + 1,
                      BitsPerBlock * SectorsPerBlock }
  /\ partition_start \in {0, 1024}
  /\ map_size = partition_start + (BitsPerBlock + 1) * BlockSize
  /\ cmd \in [name : {"bitmap"}, metadata_only : BOOLEAN]

NextBitmap == FindBitmap

SpecBitmap == InitBitmap /\ [][NextBitmap]_vars

(***************************************************************************)
(* SpecFind: ReiserFs.find_item (reiserfs_blocks.py 461-469), one          *)
(* iteration of its loop at a time, on the tree images and on images in    *)
(* which a child pointer of an internal node leads to the node itself or   *)
(* to its parent.  rn_block is treeBlock; calls is the history of the      *)
(* readNode calls.                                                         *)
(***************************************************************************)
MaxReads == 6

CyclicShapes(leafFree, nodeFree) ==
  { (20 :> Internal(2, TreeKeys(1), <<20, 18>>, nodeFree)
     @@ 18 :> TreeLeaf(4, <<50>>, leafFree)),
    (40 :> Internal(3, TreeKeys(1), <<20, 60>>, nodeFree)
     @@ 20 :> Internal(2, TreeKeys(1), <<40, 18>>, nodeFree)
     @@ 60 :> Internal(2, TreeKeys(1), <<30, 70>>, nodeFree)
     @@ 18 :> TreeLeaf(4, <<50>>, leafFree)
     @@ 30 :> TreeLeaf(5, <<53>>, leafFree)
     @@ 70 :> TreeLeaf(6, <<>>, leafFree)) }

\* treeBlock = self.superblock.root_block
FindItemStart ==
  /\ pc = "start" /\ cmd.name = "find_item"
  /\ rn_block' = root_block
  /\ pc' = "find"
  /\ UNCHANGED <<partition_start, map_size, cmd, out, errout, crashed>>
  /\ UNCHANGED <<rangeVars, keyVars, diskVars, fsVars, lookupVars, treeVars,
                 folderVars, catVars, mapVars, compared, rn_result, bitmapVars,
                 full_name>>

\* One iteration of `while True`.
FindItemStep ==
  /\ pc = "find"
  /\ Len(calls) < MaxReads
  /\ LET r == ReadNode(FsRec, rn_block)
         Return(f) ==
           /\ fi_result' = [done |-> TRUE, ok |-> f.ok,
                            items |-> IF f.found THEN <<f.item>> ELSE <<>>]
           /\ crashed' = IF f.ok THEN "none" ELSE "Exception"
           /\ pc' = "done"
           /\ UNCHANGED rn_block
         Follow(p) ==
           IF ~p.ok
             THEN Return([ok |-> FALSE, found |-> FALSE, item |-> NoItem])
             ELSE /\ rn_block' = p.block
                  /\ UNCHANGED <<fi_result, crashed, pc>>
     IN /\ SetFs(r.F)
        /\ IF ~r.complete
             THEN Return([ok |-> TRUE, found |-> FALSE, item |-> NoItem])
           ELSE IF r.node.level = 1
             THEN Return(ItemFind(r.node, lk_key))
           ELSE Follow(PtrFind(r.node, lk_key))
  /\ calls' = Append(calls, [pass |-> 0, block |-> rn_block])
  /\ UNCHANGED <<partition_start, map_size, cmd, out, errout>>
  /\ UNCHANGED <<rangeVars, keyVars, diskVars, lk_key, scan_result, heap,
                 next_pass, counts, pass, folderVars, catVars, mapVars,
                 compared, rn_result, bitmapVars, full_name>>

InitFind ==
  /\ RangeIdle /\ KeyIdle /\ FsIdle /\ TreeIdle /\ FolderIdle /\ CatIdle
  /\ RestIdle /\ CmdStart
  /\ \E hdr \in { <<3000, InternalFree(2)>>, <<500, 3000>> } :
       disk \in TreeShapes(hdr[1], hdr[2]) \cup CyclicShapes(hdr[1], hdr[2])
  /\ root_block = RootOf(disk)
  /\ bad \in DamagedMaps(DOMAIN disk)
  /\ lk_key \in { Key(2, o, Off(0), STAT, 1) : o \in {3, 4, 5, 9} }
  /\ fi_result = [done |-> FALSE, ok |-> TRUE, items |-> <<>>]
  /\ scan_result = [done |-> FALSE, ok |-> TRUE, items |-> <<>>]
  /\ partition_start = 0
  /\ map_size = 0
  /\ cmd = [name |-> "find_item"]

NextFind == FindItemStart \/ FindItemStep

SpecFind == InitFind /\ [][NextFind]_vars

(***************************************************************************)
(* SpecName: ReiserFs.get_name and get_full_name (reiserfs_blocks.py       *)
(* 532-558), one iteration of the loop of get_full_name at a time, on      *)
(* directory trees whose `..` entries lead to the parent, to a sibling or  *)
(* to the directory itself.  A component of a path is [fallback, name,     *)
(* id]: a name found in a listing, or the fallback f"{dirid}_{objid}" with *)
(* id = <<dirid, objid>>; the path returned is the sequence of its         *)
(* components, the topmost first.                                          *)
(***************************************************************************)
MaxParts == 6

NoEntry == [name |-> "", dirid |-> 0, objid |-> 0]

\* What a consumer of directory_list is handed, entry by entry, with the
\* reader's fields at that moment.
RECURSIVE Yields(_)
Yields(steps) ==
  IF Len(steps) = 0 THEN <<>>
  ELSE [j \in 1..Len(Head(steps).entries) |->
          [entry |-> Head(steps).entries[j], F |-> Head(steps).F]]
       \o Yields(Tail(steps))

\* A loop over the listing dl, or over itertools.islice(dl, limit) when
\* limit > 0, left at the first entry that Match holds of: [F, err, found,
\* entry].  A generator that is not run to its end leaves the reader as it
\* was at the last entry handed out.
FirstEntry(dl, Match(_), limit) ==
  LET ys == Yields(dl.steps)
      cut == limit > 0 /\ limit <= Len(ys)
      n == IF cut THEN limit ELSE Len(ys)
      hits == { i \in 1..n : Match(ys[i].entry) }
  IN IF dl.err # "none"
       THEN [F |-> dl.F, err |-> dl.err, found |-> FALSE, entry |-> NoEntry]
     ELSE IF hits # {}
       THEN LET i == CHOOSE x \in hits : \A y \in hits : x <= y
            IN [F |-> ys[i].F, err |-> "none", found |-> TRUE, entry |-> ys[i].entry]
     ELSE [F |-> IF cut THEN ys[n].F ELSE dl.F, err |-> "none", found |-> FALSE,
           entry |-> NoEntry]

\* fs.get_name(key, parent): [F, err, found, entry]; the name is entry.name.
GetName(F, key, parent) ==
  LET SameObjid(e) == e.objid = key.objid
  IN IF key.objid = 2
       THEN [F |-> F, err |-> "none", found |-> TRUE, entry |-> NoEntry]
       ELSE FirstEntry(DirectoryList(F, parent), SameObjid, 0)

Reverse(s) == [i \in 1..Len(s) |-> s[Len(s) + 1 - i]]

\* parts = []
GetFullNameStart ==
  /\ pc = "start" /\ cmd.name = "get_full_name"
  /\ full_name' = [done |-> FALSE, key |-> cmd.key, parent |-> cmd.parent,
                   parts |-> <<>>]
  /\ pc' = "name"
  /\ UNCHANGED <<partition_start, map_size, cmd, out, errout, crashed>>
  /\ UNCHANGED <<rangeVars, keyVars, diskVars, fsVars, lookupVars, treeVars,
                 folderVars, catVars, mapVars, compared, nodeVars, bitmapVars>>

\* One iteration of `while True`, and the return that follows a break.
GetFullNameStep ==
  /\ pc = "name"
  /\ Len(full_name.parts) < MaxParts
  /\ LET key == full_name.key
         parent == full_name.parent
         IsDotDot(e) == e.name = ".."
         Raise(F, err) ==
           /\ SetFs(F)
           /\ crashed' = err
           /\ pc' = "done"
           /\ UNCHANGED full_name
         Return(F, parts) ==
           /\ SetFs(F)
           /\ full_name' = [full_name EXCEPT !.done = TRUE, !.parts = Reverse(parts)]
           /\ pc' = "done"
           /\ UNCHANGED crashed
         Ascend(parts, up) ==
           IF up.err # "none" THEN Raise(up.F, up.err)
           ELSE IF ~up.found THEN Return(up.F, parts)
           ELSE /\ SetFs(up.F)
                /\ full_name' = [full_name EXCEPT
                     !.key = parent,
                     !.parent = Key(up.entry.dirid, up.entry.objid, Off(0), STAT, 2),
                     !.parts = parts]
                /\ UNCHANGED <<pc, crashed>>
         Named(g) ==
           LET part == IF g.found
                         THEN [fallback |-> FALSE, name |-> g.entry.name, id |-> <<0, 0>>]
                         ELSE [fallback |-> TRUE, name |-> "",
                               id |-> <<key.dirid, key.objid>>]
               parts == Append(full_name.parts, part)
           IN IF g.err # "none" THEN Raise(g.F, g.err)
              ELSE IF key.objid = 2 THEN Return(g.F, parts)
              ELSE Ascend(parts, FirstEntry(DirectoryList(g.F, parent), IsDotDot, 2))
     IN Named(GetName(FsRec, key, parent))
  /\ UNCHANGED <<partition_start, map_size, cmd, out, errout>>
  /\ UNCHANGED <<rangeVars, keyVars, diskVars, lookupVars, treeVars,
                 folderVars, catVars, mapVars, compared, nodeVars, bitmapVars>>

\* The directories /, /a, /a/b and /a/c and the files /a/b/f and /a/c/g;
\* up4 and up5 are what the `..` entries of /a/b and /a/c point to.
NameItems(up4, up5) ==
  <<StatItem(1, 2, 0, "DIRECTORY", 48),
    DirItem(1, 2, Dots(1, 2, 1, 2) \o <<Entry("a", 2, 3)>>, 48),
    StatItem(2, 3, 0, "DIRECTORY", 72),
    DirItem(2, 3, Dots(2, 3, 1, 2) \o <<Entry("b", 3, 4), Entry("c", 3, 5)>>, 72),
    StatItem(3, 4, 0, "DIRECTORY", 48),
    DirItem(3, 4, Dots(3, 4, up4[1], up4[2]) \o <<Entry("f", 4, 6)>>, 48),
    StatItem(3, 5, 0, "DIRECTORY", 48),
    DirItem(3, 5, Dots(3, 5, up5[1], up5[2]) \o <<Entry("g", 5, 7)>>, 48),
    StatItem(4, 6, 1, "REGULAR", 0),
    StatItem(5, 7, 1, "REGULAR", 0)>>

InitName ==
  /\ RangeIdle /\ KeyIdle /\ LookupIdle /\ FsIdle
  /\ TreeIdle /\ FolderIdle /\ CatIdle /\ RestIdle /\ CmdStart
  /\ \E up4 \in { <<2, 3>>, <<3, 5>>, <<3, 4>> }, up5 \in { <<2, 3>>, <<3, 4>> } :
       \E cuts \in { <<>>, <<4>>, <<2, 6>> } :
         disk = SplitTree(NameItems(up4, up5), cuts, 3000)
  /\ root_block = 18
  /\ bad \in {{}} \cup { Damage(b, "all") : b \in DOMAIN disk }
  /\ partition_start = 0
  /\ map_size = 0
  /\ cmd \in [name : {"get_full_name"},
              key : { IdKey(x[1], x[2]) : x \in { <<1, 2>>, <<3, 4>>, <<4, 6>>, <<5, 7>> } },
              parent : { IdKey(x[1], x[2]) : x \in { <<1, 2>>, <<2, 3>>, <<3, 4>>, <<3, 5>> } }]

NextName == GetFullNameStart \/ GetFullNameStep

SpecName == InitName /\ [][NextName]_vars

(***************************************************************************)
(* SpecShared: the tree command on trees in which a block is referenced    *)
(* more than once: by two pointers of an INDIRECT item, by INDIRECT items  *)
(* of two leaves, by an INDIRECT pointer and as a tree node or as the      *)
(* superblock's block, and as the child of two internal nodes.             *)
(***************************************************************************)
SuperBlockNumber == 65536 \div BlockSize

SharedShapes(leafFree, nodeFree) ==
  { (18 :> TreeLeaf(3, <<50, 50>>, leafFree)),
    (18 :> TreeLeaf(3, <<SuperBlockNumber>>, leafFree)),
    (20 :> Internal(2, TreeKeys(1), <<18, 100>>, nodeFree)
     @@ 18 :> TreeLeaf(3, <<100>>, leafFree)
     @@ 100 :> TreeLeaf(4, <<52>>, leafFree)),
    (20 :> Internal(2, TreeKeys(1), <<18, 100>>, nodeFree)
     @@ 18 :> TreeLeaf(3, <<50>>, leafFree)
     @@ 100 :> TreeLeaf(4, <<50>>, leafFree)),
    (40 :> Internal(3, TreeKeys(1), <<20, 60>>, nodeFree)
     @@ 20 :> Internal(2, TreeKeys(1), <<18, 100>>, nodeFree)
     @@ 60 :> Internal(2, TreeKeys(1), <<18, 70>>, nodeFree)
     @@ 18 :> TreeLeaf(3, <<>>, leafFree)
     @@ 100 :> TreeLeaf(4, <<52>>, leafFree)
     @@ 70 :> TreeLeaf(6, <<>>, leafFree)),
    (40 :> Internal(3, TreeKeys(1), <<20, 60>>, nodeFree)
     @@ 20 :> Internal(2, TreeKeys(1), <<18, 100>>, nodeFree)
     @@ 60 :> Internal(2, TreeKeys(1), <<18, 70>>, nodeFree)
     @@ 18 :> TreeLeaf(3, <<50>>, leafFree)
     @@ 100 :> TreeLeaf(4, <<52>>, leafFree)
     @@ 70 :> TreeLeaf(6, <<>>, leafFree)) }

InitShared ==
  /\ RangeIdle /\ KeyIdle /\ LookupIdle /\ FsIdle
  /\ TreeIdle /\ FolderIdle /\ CatIdle /\ RestIdle /\ CmdStart
  /\ \E hdr \in { <<3000, InternalFree(2)>>, <<500, 3000>> } :
       disk \in SharedShapes(hdr[1], hdr[2])
  /\ root_block = RootOf(disk)
  /\ bad \in {{}} \cup { Damage(b, "all") : b \in DOMAIN disk }
  /\ partition_start \in {0, 1024}
  /\ map_size = 0
  /\ cmd \in [name : {"tree"}, level_limit : 0..MaxLevel]

SpecShared == InitShared /\ [][NextTree]_vars

(***************************************************************************)
(* C1: after add calls that all satisfy the preorder contract (size >= 1,  *)
(* start >= last.start + last.size), no assertion has failed, items is     *)
(* strictly ascending by start, pairwise disjoint, no two consecutive      *)
(* items touch, and the union of the items is the union of what was added. *)
(***************************************************************************)
Covered(its) == UNION { its[i].start .. RangeEnd(its[i]) - 1 : i \in 1..Len(its) }

C1_RangeListInvariant ==
  preorder =>
    /\ ~rl_failed
    /\ \A i \in 1..Len(items) : items[i].size >= 1
    /\ \A i \in 1..Len(items) - 1 : RangeEnd(items[i]) < items[i + 1].start
    /\ \A i, j \in 1..Len(items) :
         i < j => (items[i].start .. RangeEnd(items[i]) - 1)
                    \cap (items[j].start .. RangeEnd(items[j]) - 1) = {}
    /\ Covered(items) = added

\* Two adjacent adds were merged into one item and a later one was appended.
C1_Witness ==
  /\ preorder
  /\ Len(items) = 2
  /\ items[1].size > MaxSize

(***************************************************************************)
(* C2: unpack(pack(k)) with the inferred version gives back k, in all five *)
(* fields, for every valid key of either version.                          *)
(***************************************************************************)
C2_RoundTrip ==
  k_pc = "unpacked" => (k_out.ok /\ k_out.key = k_in)

(***************************************************************************)
(* C3: find_item(k) and a scan of iter_items_in_range(k, k'), k' the least *)
(* key above k, give the same result for a STAT-type key k on a tree of    *)
(* complete, key-sorted nodes.  As amended: they agree when the header     *)
(* version of the stored item with k's key bytes is k's version (or no     *)
(* such item is stored); when the versions differ find_item returns the    *)
(* item and the scan returns nothing.                                      *)
(***************************************************************************)
\* The stored items of the image whose 16 key bytes are those of k.
StoredMatches(k) ==
  { it \in UNION { { disk[b].items[i] : i \in 1..Len(disk[b].items) } : b \in DOMAIN disk } :
      it.kbytes = KeyPack(k) }

LookupsDone == fi_result.done /\ scan_result.done

RunSectors(ch) ==
  UNION { { (out[i].pos - partition_start) \div SectorSize + j :
              j \in 0..(out[i].size \div SectorSize - 1) } :
          i \in { n \in 3..Len(out) : out[n].ch = ch } }

PlusSectors == RunSectors("+")
MinusSectors == RunSectors("-")

SectorsOfBlock(b) == { b * SectorsPerBlock + i : i \in 0..(SectorsPerBlock - 1) }

\* The sectors of a tree node that hold its headers and its item bodies.
HeldSectors(b) ==
  LET n == disk[b]
      left == IF n.level = 1 THEN 24 + 24 * n.item_count ELSE 4096 - n.free_space
      right == IF n.level = 1 THEN 4096 - left - n.free_space ELSE 0
  IN { b * 8 + i : i \in { j \in 0..7 : j = 0 \/ j * 512 < left \/ (8 - j) * 512 - right < 512 } }

\* The blocks the INDIRECT items of leaf b point to, zero excluded.
PointedBlocks(b) ==
  UNION { { disk[b].items[i].body.blocks[j] : j \in 1..Len(disk[b].items[i].body.blocks) } :
          i \in { n \in 1..disk[b].item_count :
                   ItemOf(disk[b].items[n]).item.key.type = INDIRECT } }
    \ {0}

DataBlocks == UNION { PointedBlocks(b) : b \in { n \in DOMAIN disk : disk[n].level = 1 } }

\* The nodes a walk from b visits when it descends through complete
\* internal nodes only.
RECURSIVE Walk(_)
Walk(b) ==
  {b} \cup IF b \in DOMAIN disk /\ disk[b].level > 1 /\ NodeResult(b).complete
             THEN UNION { Walk(disk[b].ptrs[i]) : i \in 1..(disk[b].item_count + 1) }
             ELSE {}

TreeDone ==
  /\ cmd.name = "tree" /\ pc = "done" /\ crashed = "none"
  /\ IsFinished(SuperSector)

(***************************************************************************)
(* C9: tree 1 on a tree whose only non-finished block is the leaf at       *)
(* block 100.  As the claim states it: every sector of block 100 is in a   *)
(* `-` run and none in a `+` run, and the sectors of every other tree node *)
(* are in `+` runs.                                                        *)
(***************************************************************************)
C9_Case ==
  /\ TreeDone /\ cmd.level_limit = 1
  /\ 100 \in DOMAIN disk /\ disk[100].level = 1
  /\ bad # {} /\ bad \subseteq SectorsOfBlock(100)

C9_MinusRunForBlock ==
  C9_Case =>
    /\ SectorsOfBlock(100) \subseteq MinusSectors
    /\ SectorsOfBlock(100) \cap PlusSectors = {}
    /\ \A b \in DOMAIN disk \ {100} : HeldSectors(b) \subseteq PlusSectors

\* C9 as the code has it: the first sector of block 100 is in a `+` run
\* whatever its status; when it is not finished no other sector of the
\* block is in a `+` run, and otherwise only those that hold the node's
\* headers and items are; the first sector and the header and item sectors
\* of every other tree node are in `+` runs.
C9_FirstSectorEmitted ==
  C9_Case =>
    /\ 100 * SectorsPerBlock \in PlusSectors
    /\ ~IsFinished(100 * SectorsPerBlock)
         => SectorsOfBlock(100) \cap PlusSectors = {100 * SectorsPerBlock}
    /\ SectorsOfBlock(100) \cap PlusSectors \subseteq HeldSectors(100)
    /\ \A b \in DOMAIN disk \ {100} : HeldSectors(b) \subseteq PlusSectors

C9_Witness ==
  /\ C9_Case
  /\ ~IsFinished(100 * SectorsPerBlock)
  /\ 100 * SectorsPerBlock \in PlusSectors
  /\ root_block # 100

CatRan ==
  /\ cmd.name = "cat" /\ pc = "done"
  /\ IsFinished(SuperSector)
  /\ FindItem(FsRec, IdKey(cmd.dirid, cmd.objid)).found
  /\ FindItem(FsRec, IdKey(cmd.dirid, cmd.objid)).item.body.filetype = "REGULAR"

StatSize == FindItem(FsRec, IdKey(cmd.dirid, cmd.objid)).item.body.size

Exhausted == RegularBlockList(FsRec, IdKey(cmd.dirid, cmd.objid)).ok

C4_YieldedEqualsStatSize ==
  CatRan /\ Exhausted /\ ~incomplete => yielded = StatSize

(***************************************************************************)
(* C6: cat writes exactly min(L, S) bytes and returns normally, L the      *)
(* logical length regular_block_list yields and S the Stat.size; with      *)
(* S = 10 and one 7-byte DIRECT item at offset 1 it writes 7 bytes and     *)
(* incomplete is true afterwards.                                          *)
(***************************************************************************)
Min(a, b) == IF a < b THEN a ELSE b

C6_CatWritesMinAndReturns ==
  CatRan /\ Exhausted =>
    /\ written = Min(yielded, StatSize)
    /\ crashed = "none"
    /\ (StatSize = 10 /\ yielded = 7) => written = 7 /\ incomplete

(***************************************************************************)
(* C5: when the sector holding byte 65536 is not finished, each of bitmap, *)
(* tree, folder, ls, cat and find emits `0 * 1`, a `-` run up to the       *)
(* superblock, a `+` run of 512 bytes at the superblock, a `-` run that    *)
(* reaches the rescue map's total size, and writes a message mentioning    *)
(* the superblock to stderr; no other block is read or emitted.            *)
(***************************************************************************)
C5_DegenerateMap ==
  pc = "done" /\ ~IsFinished(SuperSector) =>
    /\ Len(out) >= 1 /\ out[1] = HeaderLine
    /\ \E i \in 2..Len(out) :
         out[i] = Line(partition_start, 65536, "-")
    /\ \E i \in 2..Len(out) :
         out[i] = Line(partition_start + 65536, 512, "+")
    /\ \E i \in 2..Len(out) :
         /\ out[i].ch = "-" /\ out[i].pos = partition_start + 65536 + 512
         /\ out[i].pos + out[i].size = map_size
    /\ \E i \in 1..Len(errout) : errout[i] = "Could not access superblock"
    /\ reads = {}
    /\ PlusSectors = {SuperSector}

(***************************************************************************)
(* C7: a block pointer of 0 in an INDIRECT item never makes a command read *)
(* block 0 and never puts a sector of block 0 in the emitted ranges.       *)
(***************************************************************************)
C7_ZeroPointerSkipped ==
  pc = "done" /\ crashed = "none" =>
    /\ 0 \notin reads
    /\ SectorsOfBlock(0) \cap PlusSectors = {}

(***************************************************************************)
(* C8: for `folder /a -/a/b`, with C = /a/c and E = /a/b: the emitted      *)
(* ranges include the metadata sectors and the data-block sectors of C and *)
(* of every file reachable below C, and no data-block sector of a file     *)
(* reachable only through E, also when an object below C has E's objid.    *)
(***************************************************************************)
LeafBlocks == { b \in DOMAIN disk : disk[b].level = 1 }

\* The keys of the items of leaf b.
LeafKeys(b) == { ItemOf(disk[b].items[i]).item.key : i \in 1..disk[b].item_count }

\* The leaves that hold an item of object x = <<dirid, objid>>.
LeavesOf(x) ==
  { b \in LeafBlocks : \E k \in LeafKeys(b) : k.dirid = x[1] /\ k.objid = x[2] }

\* The stored items of object x that have type t.
ItemsOfType(x, t) ==
  UNION { { disk[b].items[i] :
              i \in { n \in 1..Len(disk[b].items) :
                        LET k == ItemOf(disk[b].items[n]).item.key IN
                        k.dirid = x[1] /\ k.objid = x[2] /\ k.type = t } } :
          b \in LeafBlocks }

\* The sectors of the data blocks of object x.
DataOf(x) ==
  UNION { SectorsOfBlock(d) :
          d \in UNION { { it.body.blocks[j] : j \in 1..Len(it.body.blocks) } :
                        it \in ItemsOfType(x, INDIRECT) } \ {0} }

\* The objects the entries of directory x name, `.` and `..` left out.
ChildrenOf(x) ==
  UNION { { <<it.body.entries[j].dirid, it.body.entries[j].objid>> :
              j \in { n \in 1..Len(it.body.entries) :
                        it.body.entries[n].name \notin {".", ".."} } } :
          it \in ItemsOfType(x, DIRECTORY) }

RECURSIVE Below(_)
Below(x) == ChildrenOf(x) \cup UNION { Below(c) : c \in ChildrenOf(x) }

FolderExcludeRan ==
  /\ pc = "done" /\ crashed = "none" /\ bad = {}
  /\ cmd = [name |-> "folder", metadata_only |-> FALSE,
            names |-> <<Name(FALSE, <<"a">>), Name(TRUE, <<"a", "b">>)>>]

C8_ExcludedSubtree ==
  FolderExcludeRan =>
    /\ \A x \in {<<3, 5>>} \cup Below(<<3, 5>>) :
         /\ \A b \in LeavesOf(x) : HeldSectors(b) \subseteq PlusSectors
         /\ DataOf(x) \subseteq PlusSectors
    /\ \A x \in Below(<<3, 4>>) \ Below(<<3, 5>>) : DataOf(x) \cap PlusSectors = {}

(***************************************************************************)
(* C11: for a RangeList that satisfies its invariant, print_rangelist      *)
(* prints the header, then a "-" line at 0 of size partition_start, then   *)
(* lines that each start where the previous one ended, ascending, with     *)
(* one "+" line per item at partition_start + s*m of size n*m, one "-"     *)
(* line per gap, and "-" and "+" alternating after the prefix line.        *)
(***************************************************************************)
Printed == pc = "printed" /\ preorder

\* The gaps of the list: before the first item and between two items.
Gaps(its) ==
  { Range(IF i = 0 THEN 0 ELSE RangeEnd(its[i]),
          its[i + 1].start - (IF i = 0 THEN 0 ELSE RangeEnd(its[i]))) :
      i \in { j \in 0..Len(its) - 1 :
                its[j + 1].start # (IF j = 0 THEN 0 ELSE RangeEnd(its[j])) } }

LinesOf(ch) == { i \in 3..Len(out) : out[i].ch = ch }

C11_PrintedLines ==
  Printed =>
    LET ps == partition_start
        m  == cmd.mult
    IN
    /\ Len(out) >= 2
    /\ out[1] = HeaderLine
    /\ out[2] = Line(0, ps, "-")
    /\ \A i \in 3..Len(out) : out[i].pos = out[i - 1].pos + out[i - 1].size
    /\ \A i \in 3..Len(out) - 1 : out[i].pos < out[i + 1].pos
    /\ \A i \in 3..Len(out) - 1 : out[i].ch # out[i + 1].ch
    /\ \A i \in 3..Len(out) : out[i].ch \in {"+", "-"}
    /\ Cardinality(LinesOf("+")) = Len(items)
    /\ \A k \in 1..Len(items) : \E i \in LinesOf("+") :
         out[i] = Line(ps + items[k].start * m, items[k].size * m, "+")
    /\ Cardinality(LinesOf("-")) = Cardinality(Gaps(items))
    /\ \A g \in Gaps(items) : \E i \in LinesOf("-") :
         out[i] = Line(ps + g.start * m, g.size * m, "-")

\* A list of two items that starts after a gap, printed with a multiplier
\* and a partition start.
C11_Witness ==
  /\ Printed
  /\ Len(items) = 2
  /\ items[1].start > 0
  /\ partition_start > 0
  /\ cmd.mult > 1
  /\ Len(out) = 6

(***************************************************************************)
(* C12: in a sorted, gap-free, non-overlapping rescue map, the lookup of   *)
(* pos returns the status of the one entry with                            *)
(* start <= pos + offset < start + size, and raises the out-of-range error *)
(* (ValueError), returning no status, when pos + offset is before the      *)
(* first entry or at or beyond the end of the last one.                    *)
(***************************************************************************)
Covering == { i \in 1..Len(rm_ranges) :
                /\ rm_ranges[i].start <= rm_position + partition_start
                /\ rm_position + partition_start
                     < rm_ranges[i].start + rm_ranges[i].size }

C12_LookupStatusOrOutOfRange ==
  rm_result.done =>
    IF Covering # {}
      THEN \E i \in Covering : rm_result = Returned(rm_ranges[i].status)
      ELSE rm_result = Raised("ValueError")

(***************************************************************************)
(* C13: tree (level limit 0) on an acyclic tree.  An unreadable or         *)
(* incomplete node stops the descent below it only: the traversal ends by  *)
(* printing its output, and by then every block that the root reaches      *)
(* through complete internal nodes has been handed to readNode, however    *)
(* many other nodes are unreadable.                                        *)
(***************************************************************************)
Called == { calls[i].block : i \in 1..Len(calls) }

\* The tree nodes that readNode does not return as complete.
Unreadable == { b \in DOMAIN disk : ~NodeResult(b).complete }

NodeTouched(b) ==
  {b * SectorsPerBlock}
    \cup IF IsFinished(b * SectorsPerBlock)
           THEN { b * SectorsPerBlock + off : off \in OccupiedOffs(NodeAt(b)) }
           ELSE {}

\* The sectors touched since the reader was made: the superblock's by
\* init() and those of every block that readNode has read.
Touched == {SuperSector} \cup UNION { NodeTouched(b) : b \in cache }

FolderPrinted ==
  /\ cmd.name = "folder" /\ pc = "done" /\ crashed = "none"
  /\ IsFinished(SuperSector)
  /\ Len(out) >= 2

C14_EmitsEverySectorTouched ==
  /\ pc = "start" => (sectors = ListSectors /\ incomplete = FALSE)
  /\ FolderPrinted => Touched \subseteq PlusSectors

(***************************************************************************)
(* C15: in find_item, iter_items_in_range, regular_block_list,             *)
(* directory_list and file_indirect_blocks, two keys are compared for      *)
(* order only when both are of version 2 or one of them has type STAT.     *)
(***************************************************************************)
Comparable(a, b) ==
  \/ a.version = 2 /\ b.version = 2
  \/ a.type = STAT
  \/ b.type = STAT

C15_ComparisonsInEnvelope ==
  \A p \in compared : Comparable(p.a, p.b)

(***************************************************************************)
(* C16: readNode(b) returns (False, None) exactly when the first sector of *)
(* b is not finished.  Otherwise it returns the decoded node, complete     *)
(* exactly when every occupied sector is finished, and every occupied      *)
(* sector other than sector 0 is in the touched set.  The occupied sectors *)
(* are those that meet bytes [0, 24 + 24 * item_count) or the last         *)
(* blocksize - 24 - 24 * item_count - free_space bytes of a leaf, and      *)
(* bytes [0, blocksize - free_space) of an internal node.                  *)
(***************************************************************************)
\* The sector offsets, counted from the start of the block, that meet
\* bytes [lo, hi).
Meeting(lo, hi) ==
  IF hi <= lo THEN {}
  ELSE { j \in 0..(CeilSectors(hi)) : j * SectorSize < hi /\ (j + 1) * SectorSize > lo }

OccupiedOf(node) ==
  IF node.level = 1
    THEN Meeting(0, 24 + 24 * node.item_count)
           \cup Meeting(BlockSize - (BlockSize - 24 - 24 * node.item_count
                                       - node.free_space), BlockSize)
    ELSE Meeting(0, BlockSize - node.free_space)

TouchedList == { sectors.list[i] : i \in 1..Len(sectors.list) }

C16_ReadNodeResult ==
  rn_result.done =>
    LET first == rn_block * SectorsPerBlock
        occ == { first + j : j \in OccupiedOf(disk[rn_block]) }
    IN
    /\ rn_result.none = ~IsFinished(first)
    /\ rn_result.none => ~rn_result.complete
    /\ ~rn_result.none =>
         /\ rn_result.node = disk[rn_block]
         /\ rn_result.complete = (\A s \in occ : IsFinished(s))
         /\ occ \ {first} \subseteq TouchedList

\* A leaf whose headers and bodies both reach past the first sector, read
\* with its last sector not finished.
C16_Witness ==
  /\ rn_result.done /\ ~rn_result.none /\ ~rn_result.complete
  /\ disk[rn_block].level = 1
  /\ disk[rn_block].item_count = 20
  /\ disk[rn_block].free_space = 3000
  /\ bad = {rn_block * SectorsPerBlock + 7}
  /\ Cardinality(TouchedList) = 3

(***************************************************************************)
(* C17: in the bitmap command without --metadata, of every bitmap block    *)
(* that is readable the output holds exactly the blocks whose bits are     *)
(* set in it; of a bitmap block that is not readable the output holds the  *)
(* bitmap block itself, once, and none of its bits, and the command        *)
(* completes with a well-ordered RangeList whatever the image holds there. *)
(***************************************************************************)
\* The blocks of the `+` runs of the output, each with the run it is in.
PlusRunsOf(b) ==
  { i \in 3..Len(out) :
      /\ out[i].ch = "+"
      /\ out[i].pos - partition_start <= b * BlockSize
      /\ b * BlockSize < out[i].pos - partition_start + out[i].size }

\* The blocks a bitmap block describes that the images can mark.
Described(b) == { BitmapBase(b) + i : i \in BitSamples } \cup {b}

BitmapRan == pc = "done" /\ cmd.name = "bitmap" /\ ~cmd.metadata_only

C17_BitmapBlocks ==
  BitmapRan =>
    /\ crashed = "none"
    /\ ~rl_failed
    /\ \A i \in 1..Len(items) - 1 : RangeEnd(items[i]) < items[i + 1].start
    /\ \A b \in BitmapBlocks(block_count) :
         IF IsFinished(b * SectorsPerBlock)
           THEN \A x \in Described(b) \cap (BitmapBase(b) .. BitmapBase(b) + BitsPerBlock - 1) :
                  PlusRunsOf(x) # {} <=> x - BitmapBase(b) \in bitmap[b]
           ELSE /\ Cardinality(PlusRunsOf(b)) = 1
                /\ \A x \in Described(b) \ {b} : PlusRunsOf(x) = {}

(***************************************************************************)
(* C18: in the tree traversal the block numbers handed to readNode never   *)
(* decrease within a pass: a child whose block number is less than that of *)
(* the node being processed is not read in the same pass but left for the  *)
(* next one, and every child left for later is read in a later pass.       *)
(***************************************************************************)
\* The children of block b that _findTree leaves for the next pass.
DeferredOf(b) ==
  IF b \in DOMAIN disk /\ NodeResult(b).complete
       /\ ~Pruned(disk[b], cmd.level_limit) /\ disk[b].level > 1
    THEN { c \in { PtrBlocks(disk[b])[n] : n \in 1..Len(PtrBlocks(disk[b])) } : c < b }
    ELSE {}

\* The calls one of whose deferred children has not been read since.
Outstanding ==
  { i \in 1..Len(calls) :
      \E c \in DeferredOf(calls[i].block) :
        ~\E j \in (i + 1)..Len(calls) :
            calls[j].block = c /\ calls[j].pass > calls[i].pass }

ForwardInPass ==
  /\ \A i, j \in 1..Len(calls) :
       (i < j /\ calls[i].pass = calls[j].pass) => calls[i].block <= calls[j].block
  /\ \A i, j \in 1..Len(calls) :
       (i < j /\ calls[j].block \in DeferredOf(calls[i].block))
         => calls[j].pass > calls[i].pass

C18_ForwardSeekPerPass ==
  /\ [](cmd.name = "tree" => ForwardInPass)
  /\ (Outstanding # {}) ~> (pc = "done" /\ Outstanding = {})

\* A three-level tree read in three passes: children were deferred twice
\* and all of them have been read.
C18_Witness ==
  /\ TreeDone /\ cmd.level_limit = 0
  /\ pass >= 3
  /\ Outstanding = {}
  /\ \E i \in 1..Len(calls) : DeferredOf(calls[i].block) # {}
  /\ ForwardInPass

(***************************************************************************)
(* C19: find_item(key) returns after it has read at most as many nodes as  *)
(* the tree is high, whatever the image holds, also when a child pointer   *)
(* of an internal node leads to the node itself or to one of its           *)
(* ancestors.                                                              *)
(***************************************************************************)
\* The height of the tree: the level of its root node.
TreeHeight == disk[root_block].level

C19_FindItemBounded ==
  cmd.name = "find_item" => Len(calls) <= TreeHeight

(***************************************************************************)
(* C20: get_full_name(key, parent) returns for every directory structure,  *)
(* also one whose `..` entries form a cycle: the ascent ends at the first  *)
(* step at which the current key is the root or get_name does not resolve  *)
(* it, so that a fallback name "<dirid>_<objid>" is the topmost component  *)
(* of the path returned.                                                   *)
(***************************************************************************)
\* The directories of the image: the ascent has at most one step for each
\* of them and one for the key it starts from.
Directories ==
  UNION { { n \in 1..disk[b].item_count :
              disk[b].items[n].body.filetype = "DIRECTORY" } \X {b} :
          b \in { x \in DOMAIN disk : disk[x].level = 1 } }

C20_FullNameTerminates ==
  (cmd.name = "get_full_name" /\ pc # "start") =>
    /\ Len(full_name.parts) <= Cardinality(Directories) + 1
    /\ full_name.done =>
         \A i \in 2..Len(full_name.parts) : ~full_name.parts[i].fallback

(***************************************************************************)
(* C21: in the tree command the sorted list of touched sectors handed to   *)
(* RangeList.add holds no sector twice, so that building the output        *)
(* RangeList never fails the ordering assertion of add, for every tree:    *)
(* also when two INDIRECT pointers reference the same data block, when an  *)
(* INDIRECT pointer references a tree node or the superblock, and when a   *)
(* node is referenced from two parents.                                    *)
(***************************************************************************)
C21_NoSectorTwice ==
  (cmd.name = "tree" /\ pc = "done") =>
    /\ crashed = "none"
    /\ \A i, j \in 1..Len(sectors.list) : i < j => sectors.list[i] # sectors.list[j]

(***************************************************************************)
(* C22: in the folder command every tree node that find_item,              *)
(* directory_list or file_indirect_blocks consults during the traversal    *)
(* has its first sector and its occupied sectors in the ranges printed,    *)
(* also when readNode had read and memoized the node during the path       *)
(* resolution, before fs.sectors was replaced.  Stated for the nodes that  *)
(* find_item consults for the keys the traversal starts from.              *)
(***************************************************************************)
\* A reader that has memoized nothing: what it memoizes in a lookup is the
\* set of nodes the lookup consults.
Unmemoized == [FsRec EXCEPT !.cache = {}]

\* The keys the names of the command resolve to: keysRemaining when the
\* traversal begins.
StartKeys == ResolveNames(Unmemoized, cmd.names, 1, <<>>, {}).keys

ConsultedAtStart ==
  UNION { FindItem(Unmemoized, StartKeys[i]).F.cache : i \in 1..Len(StartKeys) }

C22_TraversalNodesEmitted ==
  FolderPrinted => \A b \in ConsultedAtStart : NodeTouched(b) \subseteq PlusSectors

(***************************************************************************)
(* C23: for every node header readNode decodes, whatever its level,        *)
(* item_count and free_space, every sector readNode(b) appends to the      *)
(* touched set and every position it looks up in the rescue map lies in    *)
(* block b: in the sectors from b * sectors_per_block up to, and not       *)
(* including, (b + 1) * sectors_per_block.                                 *)
(* A lookup is seen by its effect: a node all of whose block is finished   *)
(* is returned as complete.                                                *)
(***************************************************************************)
C23_SectorsInsideBlock ==
  rn_result.done =>
    /\ TouchedList \subseteq SectorsOfBlock(rn_block)
    /\ (\A s \in SectorsOfBlock(rn_block) : IsFinished(s)) => rn_result.complete

====
